---------------------------- MODULE Spec2Model ----------------------------
(***************************************************************************)
(* A model of the metadata compiler of py-stratum-common:                  *)
(*   - CommonRoutineLoader.load_stored_routine and the steps it calls      *)
(*     (placeholders, designation type, substitution, metadata);           *)
(*   - RowsWithIndexWrapper._build_result_handler, the generator of the    *)
(*     nested-index code, together with a run of the code it emits.        *)
(* Text is modelled by TLA+ strings, a Python list by a sequence, a Python *)
(* dict by the sequence of its (key, value) pairs in insertion order, and  *)
(* a value that may be None by a sequence of length 0 (None) or 1.         *)
(***************************************************************************)
EXTENDS Integers, Sequences, FiniteSets, TLC

(***************************************************************************)
(* Text helpers: the parts of Python's str and re the loader relies on.    *)
(***************************************************************************)
None == << >>

Some(x) == << x >>

Ch(s, i) == SubSeq(s, i, i)

LowerLetters == "abcdefghijklmnopqrstuvwxyz"

UpperLetters == "ABCDEFGHIJKLMNOPQRSTUVWXYZ"

Digits == "0123456789"

CharsOf(s) == { Ch(s, i) : i \in 1..Len(s) }

UpperChars == CharsOf(UpperLetters)

\* [a-zA-Z0-9_]: the identifier class of the bulk_insert pattern, and \w on ASCII text.
IdentChars == CharsOf(LowerLetters) \cup UpperChars \cup CharsOf(Digits) \cup {"_"}

\* \s on the text of one line.
SpaceChars == {" ", "\t"}

LowerMap == [c \in UpperChars |-> Ch(LowerLetters, CHOOSE i \in 1..Len(UpperLetters) : Ch(UpperLetters, i) = c)]

LowerCh(c) == IF c \in UpperChars THEN LowerMap[c] ELSE c

RECURSIVE Lower(_)
\* str.lower()
Lower(s) == IF Len(s) = 0 THEN "" ELSE LowerCh(Ch(s, 1)) \o Lower(SubSeq(s, 2, Len(s)))

\* s[i:] of Python for a 1-based i.
From(s, i) == IF i > Len(s) THEN "" ELSE SubSeq(s, i, Len(s))

\* The text of s at i starts with t (case-sensitive).
StartsAt(s, i, t) == i + Len(t) - 1 <= Len(s) /\ SubSeq(s, i, i + Len(t) - 1) = t

\* The same, under re.IGNORECASE.
StartsAtNoCase(s, i, t) == i + Len(t) - 1 <= Len(s) /\ Lower(SubSeq(s, i, i + Len(t) - 1)) = Lower(t)

\* t occurs in s.
Contains(s, t) == \E i \in 1..(Len(s) + 1) : StartsAt(s, i, t)

RECURSIVE SkipWhile(_, _, _)
\* The first position at or after i whose character is not in cls (Len(s)+1 when
\* there is none): where a greedy cls* or cls+ that starts at i ends.
SkipWhile(s, i, cls) == IF i <= Len(s) /\ Ch(s, i) \in cls THEN SkipWhile(s, i + 1, cls) ELSE i

RECURSIVE Split(_, _)
\* str.split(sep) for a separator of one character.
Split(s, sep) ==
  LET hit == { i \in 1..Len(s) : Ch(s, i) = sep }
  IN IF hit = {} THEN << s >>
     ELSE LET i == CHOOSE k \in hit : \A m \in hit : k <= m
          IN << SubSeq(s, 1, i - 1) >> \o Split(From(s, i + 1), sep)

RECURSIVE Join(_, _)
\* sep.join(list)
Join(list, sep) ==
  IF Len(list) = 0 THEN ""
  ELSE IF Len(list) = 1 THEN list[1]
  ELSE list[1] \o sep \o Join(Tail(list), sep)

RECURSIVE ReplaceAll(_, _, _)
\* str.replace(old, new) for a non-empty old: every non-overlapping occurrence, left to right.
ReplaceAll(s, old, new) ==
  IF Len(s) < Len(old) THEN s
  ELSE IF StartsAt(s, 1, old) THEN new \o ReplaceAll(From(s, Len(old) + 1), old, new)
  ELSE Ch(s, 1) \o ReplaceAll(From(s, 2), old, new)

\* str.strip()
Strip(s) ==
  LET full == { j \in 1..Len(s) : Ch(s, j) \notin (SpaceChars \cup {"\n"}) }
  IN IF full = {} THEN ""
     ELSE SubSeq(s, CHOOSE j \in full : \A k \in full : j <= k, CHOOSE j \in full : \A k \in full : k <= j)

\* Python's list[a:b] for 0-based a and b, both >= 0.
Slice(list, a, b) ==
  LET hi == IF b > Len(list) THEN Len(list) ELSE b
  IN IF a >= hi THEN << >> ELSE SubSeq(list, a + 1, hi)

(***************************************************************************)
(* The regular expressions of CommonRoutineLoader, each as the match that  *)
(* Python's re computes. A match result is None or Some(groups).           *)
(***************************************************************************)
\* One placeholder at position i of text: @[A-Za-z0-9_.]+(%(max-)?type)?@
\* The greedy name run cannot give characters back (what follows it must be % or @,
\* which the class excludes), so the match is decided by the maximal run. The
\* result is the position of the closing @, or 0 when nothing matches at i.
PlaceholderEndAt(text, i) ==
  IF ~StartsAt(text, i, "@") THEN 0
  ELSE LET e == SkipWhile(text, i + 1, IdentChars \cup {"."})
       IN IF e = i + 1 THEN 0
          ELSE IF StartsAt(text, e, "@") THEN e
          ELSE IF StartsAt(text, e, "%type@") THEN e + 5
          ELSE IF StartsAt(text, e, "%max-type@") THEN e + 9
          ELSE 0

\* The first position of t in s at or after i (0 when there is none).
IndexFrom(s, i, t) ==
  LET hit == { j \in i..Len(s) : StartsAt(s, j, t) }
  IN IF hit = {} THEN 0 ELSE CHOOSE j \in hit : \A k \in hit : j <= k

RECURSIVE FindPlaceholders(_, _)
\* The scan goes on after a match that ends at e, or one character after a when
\* nothing matches at a.
FindPlaceholdersAfter(text, a, e) ==
  IF e = 0 THEN FindPlaceholders(text, a + 1)
  ELSE << SubSeq(text, a, e) >> \o FindPlaceholders(text, e + 1)

\* A match can only start at an @: a is the next one (0 when there is none).
FindPlaceholdersAt(text, a) ==
  IF a = 0 THEN << >> ELSE FindPlaceholdersAfter(text, a, PlaceholderEndAt(text, a))

\* pattern.findall(text), group 0 of every match: the non-overlapping matches, left to right.
FindPlaceholders(text, i) == FindPlaceholdersAt(text, IndexFrom(text, i, "@"))

\* re.findall(search, line, re.IGNORECASE) with a key of the replace table as the
\* pattern: the key is compiled as a regular expression, so a dot in it stands for
\* any character; the other characters of a key stand for themselves, whatever their case.
KeyMatchesAt(search, line, i) ==
  /\ i + Len(search) - 1 <= Len(line)
  /\ \A k \in 1..Len(search) :
        \/ Ch(search, k) = "."
        \/ LowerCh(Ch(search, k)) = LowerCh(Ch(line, i + k - 1))

\* tmp[0] of that findall: the text of the leftmost match, or None.
FirstKeyMatch(search, line) ==
  LET hit == { i \in 1..Len(line) : KeyMatchesAt(search, line, i) }
  IN IF hit = {} \/ Len(search) = 0 THEN None
     ELSE LET i == CHOOSE k \in hit : \A m \in hit : k <= m
          IN Some(SubSeq(line, i, i + Len(search) - 1))

\* ^\s*--\s+type\s*:\s*(\w+)\s*(.+)?\s*  under re.IGNORECASE, on one line:
\* Some(<<keyword, argument>>) or None. An argument that does not take part in the
\* match is the empty string, as findall reports it.
MatchPragma(line) ==
  LET p1 == SkipWhile(line, 1, SpaceChars)
      p2 == SkipWhile(line, p1 + 2, SpaceChars)
      p3 == SkipWhile(line, p2 + 4, SpaceChars)
      p4 == SkipWhile(line, p3 + 1, SpaceChars)
      p5 == SkipWhile(line, p4, IdentChars)
      p6 == SkipWhile(line, p5, SpaceChars)
  IN IF /\ StartsAt(line, p1, "--")
        /\ p2 > p1 + 2
        /\ StartsAtNoCase(line, p2, "type")
        /\ StartsAt(line, p3, ":")
        /\ p5 > p4
     THEN Some(<< SubSeq(line, p4, p5 - 1), From(line, p6) >>)
     ELSE None

\* ^@type\s*(\w+)\s*(.+)?\s*  under re.IGNORECASE, on the text of a tag. The dot
\* does not match a line break, so the argument ends with the tag's first line.
MatchTypeTag(tag) ==
  LET p1 == SkipWhile(tag, 6, SpaceChars \cup {"\n"})
      p2 == SkipWhile(tag, p1, IdentChars)
      p3 == SkipWhile(tag, p2, SpaceChars \cup {"\n"})
      stop == { j \in p3..Len(tag) : Ch(tag, j) = "\n" }
      e == IF stop = {} THEN Len(tag) ELSE (CHOOSE j \in stop : \A k \in stop : j <= k) - 1
  IN IF StartsAtNoCase(tag, 1, "@type") /\ p2 > p1
     THEN Some(<< SubSeq(tag, p1, p2 - 1), IF p3 > e THEN "" ELSE SubSeq(tag, p3, e) >>)
     ELSE None

\* ([a-zA-Z0-9_]+)\s+([a-zA-Z0-9_,]+) matched at position i of tmp: the groups, or None.
\* The name run is maximal (white space must follow it) and so is the column run.
BulkInfoAt(tmp, i) ==
  LET e == SkipWhile(tmp, i, IdentChars)
      w == SkipWhile(tmp, e, SpaceChars \cup {"\n"})
      c == SkipWhile(tmp, w, IdentChars \cup {","})
  IN IF e > i /\ w > e /\ c > w
     THEN Some(<< SubSeq(tmp, i, e - 1), SubSeq(tmp, w, c - 1) >>)
     ELSE None

\* info[0] of n.findall(tmp): the leftmost match anywhere in tmp, or None.
BulkInfo(tmp) ==
  LET hit == { i \in 1..Len(tmp) : BulkInfoAt(tmp, i) # None }
  IN IF hit = {} THEN None
     ELSE BulkInfoAt(tmp, CHOOSE i \in hit : \A m \in hit : i <= m)

(***************************************************************************)
(* Python dicts, as sequences of <<key, value>> in insertion order.        *)
(***************************************************************************)
DictHas(d, k) == \E i \in 1..Len(d) : d[i][1] = k

DictGet(d, k) == d[CHOOSE i \in 1..Len(d) : d[i][1] = k][2]

\* d[k] = v: a key that is present keeps its place, a new key goes last.
DictSet(d, k, v) ==
  IF DictHas(d, k) THEN [i \in 1..Len(d) |-> IF d[i][1] = k THEN << k, v >> ELSE d[i]]
  ELSE Append(d, << k, v >>)

RECURSIVE DictDel(_, _)
\* if k in d: del d[k]
DictDel(d, k) ==
  IF Len(d) = 0 THEN << >>
  ELSE IF d[1][1] = k THEN Tail(d)
  ELSE << d[1] >> \o DictDel(Tail(d), k)

SeqHas(list, x) == \E i \in 1..Len(list) : list[i] = x

RECURSIVE IntToStr(_)
\* "%d" % n for n >= 0
IntToStr(n) == IF n < 10 THEN Ch(Digits, n + 1) ELSE IntToStr(n \div 10) \o Ch(Digits, (n % 10) + 1)

(***************************************************************************)
(* The file system, as far as the loader asks it.                          *)
(***************************************************************************)
\* routine_filename of the constructor: an absolute path without links.
SourceFilename == "/d/r.sql"

LastIndexOf(s, c) ==
  LET hit == { i \in 1..Len(s) : Ch(s, i) = c }
  IN IF hit = {} THEN 0 ELSE CHOOSE i \in hit : \A m \in hit : m <= i

\* os.path.basename
Basename(path) == From(path, LastIndexOf(path, "/") + 1)

\* os.path.dirname
Dirname(path) ==
  LET i == LastIndexOf(path, "/")
  IN IF i = 0 THEN "" ELSE IF i = 1 THEN "/" ELSE SubSeq(path, 1, i - 1)

\* os.path.splitext(name)[0]: a leading dot does not start an extension.
SplitExtRoot(name) ==
  LET i == LastIndexOf(name, ".")
  IN IF i <= 1 THEN name ELSE SubSeq(name, 1, i - 1)

\* os.path.realpath of a path that is absolute, normalised and free of links.
RealPath(path) == path

(***************************************************************************)
(* Exceptions and their messages.                                          *)
(***************************************************************************)
LoaderException(message) == [class |-> "LoaderException", message |-> message]

\* What an RDBMS collaborator step (an abstract method) raises when it fails.
BackendError == [class |-> "Exception", message |-> "backend step failed"]

\* What open() or read() raises.
ReadError == [class |-> "OSError", message |-> "cannot read " \o SourceFilename]

\* An except clause that names LoaderException instead of Exception.
ExceptLoaderExceptionOnly == {"LoaderException"}

\* The classes an "except Exception" clause catches, among those the model raises.
ExceptionClasses == {"Exception", "LoaderException", "OSError"}

(***************************************************************************)
(* The steps of the loader as functions of the fields they read.           *)
(***************************************************************************)
Min(S) == CHOOSE x \in S : \A y \in S : x <= y

Max(S) == CHOOSE x \in S : \A y \in S : y <= x

RECURSIVE Distinct(_, _)
\* The "if placeholder not in placeholders: placeholders.append(placeholder)" of the scan.
Distinct(list, seen) ==
  IF Len(list) = 0 THEN seen
  ELSE Distinct(Tail(list), IF SeqHas(seen, list[1]) THEN seen ELSE Append(seen, list[1]))

RECURSIVE AddPlaceholders(_, _, _)
\* for placeholder in placeholders: if placeholder not in self._replace: ...
AddPlaceholders(rep, placeholders, pairs) ==
  IF Len(placeholders) = 0 THEN rep
  ELSE AddPlaceholders(IF DictHas(rep, placeholders[1]) THEN rep
                       ELSE DictSet(rep, placeholders[1], DictGet(pairs, Lower(placeholders[1]))),
                       Tail(placeholders), pairs)

UnknownPlaceholderMessage(placeholder) ==
  "Unknown placeholder '" \o placeholder \o "' in file " \o SourceFilename

\* __get_placeholders without the check of lines 270-273: nothing is raised and
\* nothing is collected.
CollectPlaceholdersUnchecked(matches, pairs, rep) == [exception |-> None, replace |-> rep]

\* __get_placeholders: the exception it raises (or None) and self._replace after it.
\* Lines 268-281, for the matches of the pattern in the source.
CollectPlaceholders(matches, pairs, rep) ==
  LET unknown == { i \in 1..Len(matches) : ~DictHas(pairs, Lower(matches[i])) }
  IN IF unknown # {}
     THEN [exception |-> Some(LoaderException(UnknownPlaceholderMessage(matches[Min(unknown)]))),
           replace |-> rep]
     ELSE [exception |-> None, replace |-> AddPlaceholders(rep, Distinct(matches, << >>), pairs)]

GetPlaceholdersResult(source, pairs, rep) == CollectPlaceholders(FindPlaceholders(source, 1), pairs, rep)

Quoted(text) == "'" \o text \o "'"

\* _set_magic_constants
SetMagicConstants(rep, name) ==
  LET real_path == RealPath(SourceFilename)
  IN DictSet(DictSet(DictSet(rep, "__FILE__", Quoted(real_path)),
                     "__ROUTINE__", Quoted(name)),
             "__DIR__", Quoted(Dirname(real_path)))

\* _unset_magic_constants
UnsetMagicConstants(rep) ==
  DictDel(DictDel(DictDel(DictDel(rep, "__FILE__"), "__ROUTINE__"), "__DIR__"), "__LINE__")

RECURSIVE ApplyPairs(_, _)
\* The inner loop of __substitute_replace_pairs on one line: for every entry, in
\* the order of the table, replace the text of the entry's first match everywhere.
ReplaceMatch(line, tmp, value) == IF tmp # None THEN ReplaceAll(line, tmp[1], value) ELSE line

ApplyPairs(line, rep) ==
  IF Len(rep) = 0 THEN line
  ELSE ApplyPairs(ReplaceMatch(line, FirstKeyMatch(rep[1][1], line), rep[1][2]), Tail(rep))

\* self._replace while line number n (1-based) is processed.
ReplaceAtLine(rep, n) == DictSet(rep, "__LINE__", Quoted(IntToStr(n)))

RECURSIVE SubstituteLines(_, _, _)
\* The outer loop of __substitute_replace_pairs, from line number n on.
SubstituteLines(lines, n, rep) ==
  IF n > Len(lines) THEN << >>
  ELSE << ApplyPairs(lines[n], ReplaceAtLine(rep, n)) >> \o SubstituteLines(lines, n + 1, rep)

\* __substitute_replace_pairs: the new source text and self._replace after it.
SubstituteWith(lines, magic) ==
  [routine_source_code |-> Join(SubstituteLines(lines, 1, magic), "\n"),
   replace |-> IF Len(lines) = 0 THEN magic ELSE ReplaceAtLine(magic, Len(lines))]

SubstituteReplacePairsResult(lines, rep, name) == SubstituteWith(lines, SetMagicConstants(rep, name))

\* _is_start_of_stored_routine, as a backend for SQL implements the abstract method:
\* the line that opens the routine's declaration.
IsStartOfStoredRoutine(line) == StartsAtNoCase(line, SkipWhile(line, 1, SpaceChars), "create ")

\* _is_start_of_stored_routine_body, as such a backend implements it.
IsStartOfStoredRoutineBody(line) == StartsAtNoCase(line, SkipWhile(line, 1, SpaceChars), "begin")

\* _get_specification_positions: 0-based line numbers, -1 for "not found".
\* The 0-based number of the last line of S (1-based numbers), minus back; -1 for none.
LastLine(S, back) == IF S = {} THEN -1 ELSE (Max(S) - 1) - back

GetSpecificationPositions(lines) ==
  << LastLine({ i \in 1..Len(lines) : IsStartOfStoredRoutine(lines[i]) }, 0),
     LastLine({ i \in 1..Len(lines) : IsStartOfStoredRoutineBody(lines[i]) }, 1) >>

BulkInsertMessage == "Expected: -- type: bulk_insert <table_name> <columns> in file " \o SourceFilename

\* The body of "if matches:" without the test of line 360: an argument is let pass.
DesignateOldAnyArgument(keyword, argument, cur) ==
  LET designation == Lower(keyword)
      set == [cur EXCEPT !.designation_type = Some(designation)]
      info == BulkInfo(argument)
  IN IF designation = "bulk_insert"
     THEN IF info = None
          THEN [set EXCEPT !.exception = Some(LoaderException(BulkInsertMessage))]
          ELSE [set EXCEPT !.table_name = Some(info[1][1]), !.columns = Some(Split(info[1][2], ","))]
     ELSE IF designation = "rows_with_key" \/ designation = "rows_with_index"
     THEN [set EXCEPT !.columns = Some(Split(argument, ","))]
     ELSE set

\* The body of "if matches:" in _get_designation_type_old, for the groups (keyword, argument)
\* of a pragma line; cur holds designation_type, table_name, columns and the exception.
DesignateOld(keyword, argument, cur) ==
  LET designation == Lower(keyword)
      set == [cur EXCEPT !.designation_type = Some(designation)]
      info == BulkInfo(argument)
  IN IF designation = "bulk_insert"
     THEN IF info = None
          THEN [set EXCEPT !.exception = Some(LoaderException(BulkInsertMessage))]
          ELSE [set EXCEPT !.table_name = Some(info[1][1]), !.columns = Some(Split(info[1][2], ","))]
     ELSE IF designation = "rows_with_key" \/ designation = "rows_with_index"
     THEN [set EXCEPT !.columns = Some(Split(argument, ","))]
     ELSE IF argument # ""
     THEN [set EXCEPT !.exception = Some(LoaderException("Expected: -- type: " \o designation))]
     ELSE set

RECURSIVE OldFromLine(_, _, _, _)
\* The loop of _get_designation_type_old over range(line_number, last + 1), 0-based.
ApplyPragma(matches, cur) ==
  IF matches = None THEN cur ELSE DesignateOld(matches[1][1], matches[1][2], cur)

OldFromLine(lines, line_number, last, cur) ==
  IF line_number > last \/ cur.exception # None THEN cur
  ELSE OldFromLine(lines, line_number + 1, last, ApplyPragma(MatchPragma(lines[line_number + 1]), cur))

\* _get_designation_type_old
OldBetween(lines, positions, cur) ==
  IF positions[1] # -1 /\ positions[2] # -1
  THEN OldFromLine(lines, positions[1], positions[2], cur)
  ELSE cur

GetDesignationTypeOldResult(lines, cur) == OldBetween(lines, GetSpecificationPositions(lines), cur)

\* re.match(r'\s*/\*\*', line)
IsDocBlockOpen(line) == StartsAt(line, SkipWhile(line, 1, SpaceChars), "/**")

\* re.match(r'\s*\*/', line)
IsDocBlockClose(line) == StartsAt(line, SkipWhile(line, 1, SpaceChars), "*/")

\* __get_doc_block_lines: (line1, line2), 0-based, each None or Some(number). The scan
\* stops after the first line that starts the routine.
LastOf(S) == IF S = {} THEN None ELSE Some(Max(S) - 1)

\* The 1-based number of the line at which the scan of __get_doc_block_lines stops.
ScanEnd(lines, starts) == IF starts = {} THEN Len(lines) ELSE Min(starts)

DocBlockLinesUpTo(lines, last) ==
  << LastOf({ i \in 1..last : IsDocBlockOpen(lines[i]) }),
     LastOf({ i \in 1..last : IsDocBlockClose(lines[i]) }) >>

GetDocBlockLines(lines) ==
  DocBlockLinesUpTo(lines, ScanEnd(lines, { i \in 1..Len(lines) : IsStartOfStoredRoutine(lines[i]) }))

\* The doc_block handed to DocBlockReflection by _get_designation_type_new and by
\* __get_doc_block_parts_source: lines[line1:line2 - line1 + 1].
DocBlockAt(lines, pos) ==
  IF pos[1] # None /\ pos[2] # None /\ pos[1][1] <= pos[2][1]
  THEN Slice(lines, pos[1][1], pos[2][1] - pos[1][1] + 1)
  ELSE << >>

GetDocBlock(lines) == DocBlockAt(lines, GetDocBlockLines(lines))

(***************************************************************************)
(* DocBlockReflection: the parser of a doc block into a description and    *)
(* tags. One line of a block is cleaned of its comment markers and of the  *)
(* white space around it; a cleaned line that starts with @name opens a    *)
(* tag, a following non-blank line without a leading @ continues it.       *)
(***************************************************************************)
EndsWith(s, t) == Len(t) <= Len(s) /\ SubSeq(s, Len(s) - Len(t) + 1, Len(s)) = t

DropOpenMarker(a) == IF StartsAt(a, 1, "/**") THEN From(a, 4) ELSE a

DropCloseMarker(b) == IF EndsWith(b, "*/") THEN SubSeq(b, 1, Len(b) - 2) ELSE b

DropLeadingStar(d) == IF StartsAt(d, 1, "*") THEN Strip(From(d, 2)) ELSE d

\* A line with its white space trimmed and nothing else.
StripOnly(line) == Strip(line)

CleanDocLine(line) == DropLeadingStar(Strip(DropCloseMarker(DropOpenMarker(Strip(line)))))

CleanDocBlock(doc_block) == [i \in 1..Len(doc_block) |-> CleanDocLine(doc_block[i])]

RECURSIVE TagsJoinedBySpace(_, _, _)
\* The tags with a line that goes on put after a space, not after a line break.
TagsJoinedBySpace(cleaned, tags, open) ==
  IF Len(cleaned) = 0 THEN tags
  ELSE LET line == cleaned[1]
           e == SkipWhile(line, 2, IdentChars)
       IN IF StartsAt(line, 1, "@")
          THEN IF e > 2
               THEN TagsJoinedBySpace(Tail(cleaned),
                                      Append(tags, [name |-> SubSeq(line, 2, e - 1), text |-> line]), TRUE)
               ELSE TagsJoinedBySpace(Tail(cleaned), tags, FALSE)
          ELSE IF line = "" \/ ~open
          THEN TagsJoinedBySpace(Tail(cleaned), tags, open /\ line # "")
          ELSE TagsJoinedBySpace(Tail(cleaned),
                                 [tags EXCEPT ![Len(tags)].text = @ \o " " \o line], TRUE)

RECURSIVE TagsFrom(_, _, _)
\* The tags of the cleaned lines, in order, as records (name, text); open tells
\* whether the last tag still takes continuation lines.
TagsFrom(cleaned, tags, open) ==
  IF Len(cleaned) = 0 THEN tags
  ELSE LET line == cleaned[1]
           e == SkipWhile(line, 2, IdentChars)
       IN IF StartsAt(line, 1, "@")
          THEN IF e > 2
               THEN TagsFrom(Tail(cleaned), Append(tags, [name |-> SubSeq(line, 2, e - 1), text |-> line]), TRUE)
               ELSE TagsFrom(Tail(cleaned), tags, FALSE)
          ELSE IF line = "" \/ ~open
          THEN TagsFrom(Tail(cleaned), tags, open /\ line # "")
          ELSE TagsFrom(Tail(cleaned),
                        [tags EXCEPT ![Len(tags)].text = @ \o "\n" \o line], TRUE)

RECURSIVE TextsOf(_, _)
TextsOf(tags, name) ==
  IF Len(tags) = 0 THEN << >>
  ELSE (IF tags[1].name = name THEN << tags[1].text >> ELSE << >>) \o TextsOf(Tail(tags), name)

\* DocBlockReflection(doc_block).get_tags(name)
GetTags(doc_block, name) == TextsOf(TagsFrom(CleanDocBlock(doc_block), << >>, FALSE), name)

\* DocBlockReflection(doc_block).get_description(): the cleaned lines before the
\* first tag, without the empty lines at either end, joined by line breaks.
DescriptionOf(cleaned) ==
  LET tagAt == { i \in 1..Len(cleaned) : StartsAt(cleaned[i], 1, "@") }
      full == { i \in 1..Len(cleaned) : cleaned[i] # "" /\ \A t \in tagAt : i < t }
  IN IF full = {} THEN "" ELSE Join(SubSeq(cleaned, Min(full), Max(full)), "\n")

GetDescription(doc_block) == DescriptionOf(CleanDocBlock(doc_block))

(***************************************************************************)
(* The doc-tag strategy, the doc block parts and the parameter check.      *)
(***************************************************************************)
\* The body of "if matches:" in _get_designation_type_new.
DesignateNew(keyword, argument, cur) ==
  LET designation == Lower(keyword)
      set == [cur EXCEPT !.designation_type = Some(designation)]
      info == BulkInfo(argument)
  IN IF designation = "bulk_insert"
     THEN IF info = None
          THEN [set EXCEPT !.exception = Some(LoaderException(BulkInsertMessage))]
          ELSE [set EXCEPT !.table_name = Some(info[1][1]), !.columns = Some(Split(info[1][2], ","))]
     ELSE IF designation = "rows_with_key" \/ designation = "rows_with_index"
     THEN [set EXCEPT !.columns = Some(Split(argument, ","))]
     ELSE IF argument # ""
     THEN [set EXCEPT !.exception = Some(LoaderException("Expected: @type " \o designation))]
     ELSE set

NoDesignationMessage ==
  "Unable to find the designation type of the stored routine in file " \o SourceFilename

\* _get_designation_type_new
\* Lines 313-329: what the groups of the tag (or None) make of the fields.
ApplyTypeTag(matches, cur) ==
  IF matches = None THEN cur ELSE DesignateNew(matches[1][1], matches[1][2], cur)

\* Lines 310-312: only a doc block with exactly one @type tag is looked at.
ApplyTypeTags(designation_type, cur) ==
  IF Len(designation_type) = 1 THEN ApplyTypeTag(MatchTypeTag(designation_type[1]), cur) ELSE cur

\* Lines 331-333: no designation type is fatal.
RequireDesignation(next) ==
  IF next.exception # None THEN next
  ELSE IF next.designation_type = None
  THEN [next EXCEPT !.exception = Some(LoaderException(NoDesignationMessage))]
  ELSE next

\* Lines 306-333: what the doc block handed to DocBlockReflection makes of the fields.
DesignationOfDocBlock(block, cur) ==
  RequireDesignation(ApplyTypeTags(GetTags(block, "type"), cur))

\* _get_designation_type_new
GetDesignationTypeNewResult(lines, cur) == DesignationOfDocBlock(GetDocBlock(lines), cur)

\* re.match(r'^(@param)\s+(\w+)\s*(.+)?', tag, re.DOTALL): None, or Some of the
\* name (group 2) and the description (group 3, None when it takes no part).
MatchParamTag(tag) ==
  LET p1 == SkipWhile(tag, 7, SpaceChars \cup {"\n"})
      p2 == SkipWhile(tag, p1, IdentChars)
      p3 == SkipWhile(tag, p2, SpaceChars \cup {"\n"})
  IN IF StartsAt(tag, 1, "@param") /\ p1 > 7 /\ p2 > p1
     THEN Some([name |-> SubSeq(tag, p1, p2 - 1),
                description |-> IF p3 > Len(tag) THEN None ELSE Some(From(tag, p3))])
     ELSE None

RECURSIVE ParamsOf(_)
ParamsOf(tags) ==
  IF Len(tags) = 0 THEN << >>
  ELSE LET parts == MatchParamTag(tags[1])
       IN (IF parts = None THEN << >> ELSE << parts[1] >>) \o ParamsOf(Tail(tags))

\* __get_doc_block_parts_source
DocBlockPartsOf(doc_block) ==
  [description |-> GetDescription(doc_block),
   parameters |-> ParamsOf(GetTags(doc_block, "param"))]

GetDocBlockPartsSource(lines) == DocBlockPartsOf(GetDocBlock(lines))

\* __get_parameter_doc_description
GetParameterDocDescription(parts_source, name) ==
  LET hit == { i \in 1..Len(parts_source.parameters) : parts_source.parameters[i].name = name }
  IN IF hit = {} THEN Some("") ELSE parts_source.parameters[Min(hit)].description

\* DataTypeHelper.column_type_to_python_type of the backend: a lookup by data type.
ColumnTypeToPythonType(parameter_info) ==
  IF parameter_info.data_type_descriptor = "int" THEN "int" ELSE "str"

\* DataTypeHelper.column_type_to_python_type_hint of the backend.
ColumnTypeToPythonTypeHint(parameter_info) ==
  IF parameter_info.data_type_descriptor = "int" THEN "int | None" ELSE "str | None"

\* __get_doc_block_parts_wrapper, given the parts found in the source.
GetDocBlockPartsWrapper(parts_source, params) ==
  [description |-> parts_source.description,
   parameters |-> [i \in 1..Len(params) |->
                     [parameter_name |-> params[i].name,
                      python_type |-> ColumnTypeToPythonType(params[i]),
                      python_type_hint |-> ColumnTypeToPythonTypeHint(params[i]),
                      data_type_descriptor |-> params[i].data_type_descriptor,
                      description |-> GetParameterDocDescription(parts_source, params[i].name)]]]

RECURSIVE WarningsFor(_, _, _)
RECURSIVE WarningsForEvery(_, _, _)
\* One loop of __validate_parameter_lists without its test: a warning for every name.
WarningsForEvery(names, others, text) ==
  IF Len(names) = 0 THEN << >>
  ELSE << << "warning", text[1] \o names[1] \o text[2] >> >> \o WarningsForEvery(Tail(names), others, text)

\* One loop of __validate_parameter_lists: a warning for every name of names that
\* is not among the others.
WarningsFor(names, others, text) ==
  IF Len(names) = 0 THEN << >>
  ELSE (IF SeqHas(others, names[1]) THEN << >> ELSE << << "warning", text[1] \o names[1] \o text[2] >> >>)
       \o WarningsFor(Tail(names), others, text)

\* __validate_parameter_lists: the warnings it sends to the output, in order.
ValidateParameterListsWarnings(params, parts_source) ==
  LET database_parameters_names == [i \in 1..Len(params) |-> params[i].name]
      doc_block_parameters_names ==
        [i \in 1..Len(parts_source.parameters) |-> parts_source.parameters[i].name]
  IN WarningsFor(database_parameters_names, doc_block_parameters_names,
                 << "Parameter ", " is missing in doc block" >>)
     \o WarningsFor(doc_block_parameters_names, database_parameters_names,
                    << "Unknown parameter ", " found in doc block" >>)

(***************************************************************************)
(* The state of one CommonRoutineLoader and of what surrounds it.          *)
(***************************************************************************)
VARIABLES
  pc,                          \* the position of load_stored_routine
  trace,                       \* the steps called so far, in order
  file_text,                   \* the content of the source file
  replace_pairs,               \* _replace_pairs: the caller's table
  old_metadata,                \* the dict the caller passed as pystratum_old_metadata
  own_metadata,                \* the dict the constructor made for _pystratum_metadata
  pystratum_metadata,          \* which of the two dicts _pystratum_metadata refers to
  m_time,                      \* _m_time
  routine_name,                \* _routine_name
  routine_source_code,         \* _routine_source_code
  routine_source_code_lines,   \* _routine_source_code_lines
  replace,                     \* _replace
  designation_type,            \* _designation_type
  table_name,                  \* _table_name
  columns,                     \* _columns
  fields,                      \* _fields
  columns_types,               \* _columns_types
  parameters,                  \* _parameters
  doc_block_parts_source,      \* _doc_block_parts_source
  doc_block_parts_wrapper,     \* _doc_block_parts_wrapper
  doc_block,                   \* the doc_block last handed to DocBlockReflection, or None
  exception,                   \* the exception in flight, or None
  io_log,                      \* what the output collaborator (_io) received
  result                       \* what load_stored_routine returned, or None

inputVars == << file_text, replace_pairs >>

metadataVars == << old_metadata, own_metadata, pystratum_metadata >>

sourceVars == << routine_source_code, routine_source_code_lines >>

designationVars == << designation_type, table_name, columns >>

factVars == << fields, columns_types, parameters >>

docVars == << doc_block_parts_source, doc_block_parts_wrapper, doc_block >>

loaderVars == << pc, trace, inputVars, metadataVars, m_time, routine_name, sourceVars, replace,
                 designationVars, factVars, docVars, exception, io_log, result >>

(***************************************************************************)
(* The state of one RowsWithIndexWrapper at work, and of one call of the   *)
(* method it generates.                                                    *)
(***************************************************************************)
VARIABLES
  wpc,                         \* the position of the generator and of the generated method
  routine_columns,             \* context.routine['columns']
  code_store,                  \* context.code_store: the lines appended and the indent level
  rows,                        \* the result set the generated method iterates
  row_number,                  \* how many rows the for loop has handled
  ret                          \* the variable ret of the generated method

wrapperVars == << wpc, routine_columns, code_store, rows, row_number, ret >>

(***************************************************************************)
(* The state of one CommonBulkWrapper at work on a metadata record.        *)
(***************************************************************************)
VARIABLES
  bpc,                         \* the position of the generator in a build
  metadata_parameters,         \* context.pystratum_metadata['parameters']
  pydoc_parameters,            \* context.pystratum_metadata['pydoc']['parameters']
  wrapper_args,                \* what _wrapper_args last returned, or None
  docstring_parameters,        \* the list the docstring was last built from, or None
  generations                  \* how many times the wrapper has been generated

bulkVars == << bpc, metadata_parameters, pydoc_parameters, wrapper_args, docstring_parameters,
               generations >>

(***************************************************************************)
(* One DocBlockReflection: the lines it is made from and what it parses    *)
(* them into.                                                              *)
(***************************************************************************)
VARIABLES
  comment,                     \* the lines given to the constructor, or None
  reflection                   \* the description and the tags of the object, or None

reflectionVars == << comment, reflection >>

\* What os.path.exists and os.path.isfile may find at the path.
FileKinds == {"missing", "directory", "file"}

\* int(os.path.getmtime(...)) of the file.
MTimes == {200}

\* What the RDBMS may report as the routine's parameters.
DbParameterLists ==
  { << >>,
    << [name |-> "p1", data_type_descriptor |-> "int"] >>,
    << [name |-> "p1", data_type_descriptor |-> "int"],
       [name |-> "p2", data_type_descriptor |-> "varchar(10)"] >> }

\* The state __init__ leaves, for a source file, a table and a prior record.
LoaderInit(text, pairs, old) ==
  /\ pc = "start"
  /\ trace = << >>
  /\ file_text = text
  /\ replace_pairs = pairs
  /\ old_metadata = old
  /\ own_metadata = None
  /\ pystratum_metadata = "own"
  /\ m_time = 0
  /\ routine_name = None
  /\ routine_source_code = None
  /\ routine_source_code_lines = << >>
  /\ replace = << >>
  /\ designation_type = None
  /\ table_name = None
  /\ columns = None
  /\ fields = None
  /\ columns_types = None
  /\ parameters = << >>
  /\ doc_block_parts_source = None
  /\ doc_block_parts_wrapper = None
  /\ doc_block = None
  /\ exception = None
  /\ io_log = << >>
  /\ result = None

Raise(e) == exception' = Some(e) /\ pc' = "except"

Goto(label) == exception' = exception /\ pc' = label

\* A step of the loader: it is recorded, and it touches no wrapper generator.
Called(step) == trace' = Append(trace, step) /\ UNCHANGED << wrapperVars, bulkVars, reflectionVars >>

\* Lines 152-163: the routine name, the checks of the path, the prior record.
Start ==
  /\ pc = "start"
  /\ Called("start")
  /\ routine_name' = Some(SplitExtRoot(Basename(SourceFilename)))
  /\ \E kind \in FileKinds, t \in MTimes :
       IF kind = "missing"
       THEN /\ Raise(LoaderException("Source file '" \o SourceFilename \o "' does not exist"))
            /\ UNCHANGED << m_time, pystratum_metadata >>
       ELSE IF kind = "directory"
       THEN /\ Raise(LoaderException("Unable to get mtime of file '" \o SourceFilename \o "'"))
            /\ UNCHANGED << m_time, pystratum_metadata >>
       ELSE /\ m_time' = t
            /\ pystratum_metadata' = IF old_metadata # None THEN "old" ELSE pystratum_metadata
            /\ Goto("must_reload")
  /\ UNCHANGED << inputVars, old_metadata, own_metadata, sourceVars, replace, designationVars,
                  factVars, docVars, io_log, result >>

\* Line 165-166: _must_reload is the backend's; it answers yes or no, or it fails.
MustReload ==
  /\ pc = "must_reload"
  /\ Called("must_reload")
  /\ \E load \in {"yes", "no", "raise"} :
       IF load = "raise" THEN Raise(BackendError)
       ELSE Goto(IF load = "yes" THEN "read_source_file" ELSE "return")
  /\ UNCHANGED << inputVars, metadataVars, m_time, routine_name, sourceVars, replace,
                  designationVars, factVars, docVars, io_log, result >>

\* __read_source_file
ReadSourceFile ==
  /\ pc = "read_source_file"
  /\ Called("read_source_file")
  /\ \E ok \in BOOLEAN :
       IF ok
       THEN /\ routine_source_code' = Some(file_text)
            /\ routine_source_code_lines' = Split(file_text, "\n")
            /\ Goto("get_placeholders")
       ELSE /\ Raise(ReadError)
            /\ UNCHANGED sourceVars
  /\ UNCHANGED << inputVars, metadataVars, m_time, routine_name, replace, designationVars,
                  factVars, docVars, io_log, result >>

\* __get_placeholders with the working table and the caller's table being one dict.
PlaceholdersDoneInPlace(r) ==
  /\ replace' = r.replace
  /\ replace_pairs' = r.replace
  /\ IF r.exception # None THEN Raise(r.exception[1]) ELSE Goto("get_designation_type_old")

\* Lines 279-281 write to _replace, the dict line 88 made; _replace_pairs is only read.
PlaceholdersDone(r) ==
  /\ replace' = r.replace
  /\ replace_pairs' = replace_pairs
  /\ IF r.exception # None THEN Raise(r.exception[1]) ELSE Goto("get_designation_type_old")

\* __get_placeholders
GetPlaceholders ==
  /\ pc = "get_placeholders"
  /\ Called("get_placeholders")
  /\ PlaceholdersDone(GetPlaceholdersResult(routine_source_code[1], replace_pairs, replace))
  /\ UNCHANGED << file_text, metadataVars, m_time, routine_name, sourceVars, designationVars,
                  factVars, docVars, io_log, result >>

DesignationFields ==
  [designation_type |-> designation_type, table_name |-> table_name, columns |-> columns,
   exception |-> None]

SetDesignation(r) ==
  /\ designation_type' = r.designation_type
  /\ table_name' = r.table_name
  /\ columns' = r.columns

\* _get_designation_type without the test of line 289: both strategies always run.
OldDoneThenNew(r) ==
  /\ SetDesignation(r)
  /\ IF r.exception # None THEN Raise(r.exception[1]) ELSE Goto("get_designation_type_new")

\* Line 289: the doc-tag strategy runs when the legacy strategy left no designation type.
OldDone(r) ==
  /\ SetDesignation(r)
  /\ IF r.exception # None THEN Raise(r.exception[1])
     ELSE IF r.designation_type = None THEN Goto("get_designation_type_new")
     ELSE Goto("get_name")

\* The doc-tag strategy with its failure noted and the run going on.
NewDoneGoesOn(r) ==
  /\ SetDesignation(r)
  /\ exception' = r.exception
  /\ pc' = "get_name"

NewDone(r) ==
  /\ SetDesignation(r)
  /\ IF r.exception # None THEN Raise(r.exception[1]) ELSE Goto("get_name")

\* _get_designation_type, first half: the legacy strategy, and the choice that follows it.
GetDesignationTypeOld ==
  /\ pc = "get_designation_type_old"
  /\ Called("get_designation_type_old")
  /\ OldDone(GetDesignationTypeOldResult(routine_source_code_lines, DesignationFields))
  /\ UNCHANGED << inputVars, metadataVars, m_time, routine_name, sourceVars, replace,
                  factVars, docVars, io_log, result >>

\* Lines 297-304, and what follows them.
TypeTagsOf(block) ==
  /\ doc_block' = Some(block)
  /\ NewDone(DesignationOfDocBlock(block, DesignationFields))

\* _get_designation_type, second half: the doc-tag strategy.
GetDesignationTypeNew ==
  /\ pc = "get_designation_type_new"
  /\ Called("get_designation_type_new")
  /\ TypeTagsOf(GetDocBlock(routine_source_code_lines))
  /\ UNCHANGED << inputVars, metadataVars, m_time, routine_name, sourceVars, replace,
                  factVars, doc_block_parts_source, doc_block_parts_wrapper, io_log, result >>

\* _get_name is the backend's.
GetName ==
  /\ pc = "get_name"
  /\ Called("get_name")
  /\ \E ok \in BOOLEAN : IF ok THEN Goto("substitute_replace_pairs") ELSE Raise(BackendError)
  /\ UNCHANGED << inputVars, metadataVars, m_time, routine_name, sourceVars, replace,
                  designationVars, factVars, docVars, io_log, result >>

SubstituteDone(r) ==
  /\ routine_source_code' = Some(r.routine_source_code)
  /\ replace' = r.replace

\* __substitute_replace_pairs
SubstituteReplacePairs ==
  /\ pc = "substitute_replace_pairs"
  /\ Called("substitute_replace_pairs")
  /\ SubstituteDone(SubstituteReplacePairsResult(routine_source_code_lines, replace, routine_name[1]))
  /\ Goto("load_routine_file")
  /\ UNCHANGED << inputVars, metadataVars, m_time, routine_name, routine_source_code_lines,
                  designationVars, factVars, docVars, io_log, result >>

\* _load_routine_file is the backend's: it loads the substituted source into the
\* RDBMS. The base class offers it _unset_magic_constants and does not call it.
LoadRoutineFile ==
  /\ pc = "load_routine_file"
  /\ Called("load_routine_file")
  /\ \E ok \in BOOLEAN, unset \in BOOLEAN :
       /\ replace' = IF unset THEN UnsetMagicConstants(replace) ELSE replace
       /\ IF ~ok THEN Raise(BackendError)
          ELSE IF designation_type = Some("bulk_insert")
          THEN Goto("get_bulk_insert_table_columns_info")
          ELSE Goto("get_routine_parameters_info")
  /\ UNCHANGED << inputVars, metadataVars, m_time, routine_name, sourceVars, designationVars,
                  factVars, docVars, io_log, result >>

\* _get_bulk_insert_table_columns_info is the backend's: the columns of the table.
GetBulkInsertTableColumnsInfo ==
  /\ pc = "get_bulk_insert_table_columns_info"
  /\ Called("get_bulk_insert_table_columns_info")
  /\ \E ok \in BOOLEAN :
       IF ok
       THEN /\ fields' = columns
            /\ columns_types' = Some([i \in 1..Len(columns[1]) |-> "int"])
            /\ Goto("get_routine_parameters_info")
       ELSE /\ Raise(BackendError)
            /\ UNCHANGED << fields, columns_types >>
  /\ UNCHANGED << inputVars, metadataVars, m_time, routine_name, sourceVars, replace,
                  designationVars, parameters, docVars, io_log, result >>

\* _get_routine_parameters_info is the backend's: the parameters the RDBMS reports.
GetRoutineParametersInfo ==
  /\ pc = "get_routine_parameters_info"
  /\ Called("get_routine_parameters_info")
  /\ \E ok \in BOOLEAN, params \in DbParameterLists :
       IF ok
       THEN parameters' = params /\ Goto("get_doc_block_parts_wrapper")
       ELSE Raise(BackendError) /\ UNCHANGED parameters
  /\ UNCHANGED << inputVars, metadataVars, m_time, routine_name, sourceVars, replace,
                  designationVars, fields, columns_types, docVars, io_log, result >>

DocBlockPartsDone(parts) ==
  /\ doc_block_parts_source' = Some(parts)
  /\ doc_block_parts_wrapper' = Some(GetDocBlockPartsWrapper(parts, parameters))

\* Lines 427-434 of __get_doc_block_parts_source, and what follows them.
PartsOf(block) ==
  /\ doc_block' = Some(block)
  /\ DocBlockPartsDone(DocBlockPartsOf(block))

\* __get_doc_block_parts_wrapper (it calls __get_doc_block_parts_source first).
GetDocBlockParts ==
  /\ pc = "get_doc_block_parts_wrapper"
  /\ Called("get_doc_block_parts_wrapper")
  /\ PartsOf(GetDocBlock(routine_source_code_lines))
  /\ Goto("validate_parameter_lists")
  /\ UNCHANGED << inputVars, metadataVars, m_time, routine_name, sourceVars, replace,
                  designationVars, factVars, io_log, result >>

\* __validate_parameter_lists
ValidateParameterLists ==
  /\ pc = "validate_parameter_lists"
  /\ Called("validate_parameter_lists")
  /\ io_log' = io_log \o ValidateParameterListsWarnings(parameters, doc_block_parts_source[1])
  /\ Goto("update_metadata")
  /\ UNCHANGED << inputVars, metadataVars, m_time, routine_name, sourceVars, replace,
                  designationVars, factVars, docVars, result >>

\* The dict _update_metadata leaves: every key is assigned.
UpdatedMetadata ==
  [routine_name |-> routine_name,
   designation |-> designation_type,
   table_name |-> table_name,
   parameters |-> parameters,
   columns |-> columns,
   fields |-> fields,
   column_types |-> columns_types,
   timestamp |-> m_time,
   replace |-> replace,
   pydoc |-> doc_block_parts_wrapper]

\* _update_metadata: it writes into the dict _pystratum_metadata refers to.
UpdateMetadata ==
  /\ pc = "update_metadata"
  /\ Called("update_metadata")
  /\ IF pystratum_metadata = "old"
     THEN old_metadata' = Some(UpdatedMetadata) /\ UNCHANGED own_metadata
     ELSE own_metadata' = Some(UpdatedMetadata) /\ UNCHANGED old_metadata
  /\ Goto("return")
  /\ UNCHANGED << inputVars, pystratum_metadata, m_time, routine_name, sourceVars, replace,
                  designationVars, factVars, docVars, io_log, result >>

\* The dict a reference denotes.
Deref(ref) == IF ref = "old" THEN old_metadata ELSE own_metadata

\* A return of the dict the constructor made, whatever _pystratum_metadata refers to.
ReturnedOwnRecord == [kind |-> "metadata", ref |-> "own"]

\* Line 180: what is returned is the dict _pystratum_metadata refers to.
ReturnedRecord == [kind |-> "metadata", ref |-> pystratum_metadata]

\* Line 180: return self._pystratum_metadata
Return ==
  /\ pc = "return"
  /\ Called("return")
  /\ result' = Some(ReturnedRecord)
  /\ Goto("done")
  /\ UNCHANGED << inputVars, metadataVars, m_time, routine_name, sourceVars, replace,
                  designationVars, factVars, docVars, io_log >>

\* _log_exception: one call of the output collaborator's error().
LogException(e) == << "error", Split(Strip(e.message), "\n") >>

\* Lines 182-184: the except clause of load_stored_routine.
Except ==
  /\ pc = "except"
  /\ Called("except")
  /\ IF exception[1].class \in ExceptionClasses
     THEN /\ io_log' = Append(io_log, LogException(exception[1]))
          /\ result' = Some([kind |-> "False", ref |-> "none"])
          /\ Goto("done")
     ELSE /\ result' = Some([kind |-> "raised", ref |-> "none"])
          /\ Goto("done")
          /\ UNCHANGED io_log
  /\ UNCHANGED << inputVars, metadataVars, m_time, routine_name, sourceVars, replace,
                  designationVars, factVars, docVars >>

LoaderNext ==
  \/ Start
  \/ MustReload
  \/ ReadSourceFile
  \/ GetPlaceholders
  \/ GetDesignationTypeOld
  \/ GetDesignationTypeNew
  \/ GetName
  \/ SubstituteReplacePairs
  \/ LoadRoutineFile
  \/ GetBulkInsertTableColumnsInfo
  \/ GetRoutineParametersInfo
  \/ GetDocBlockParts
  \/ ValidateParameterLists
  \/ UpdateMetadata
  \/ Return
  \/ Except

(***************************************************************************)
(* The code store: it keeps the lines appended to it, each with the indent *)
(* level it stands at; the level rises by one after a line that ends with  *)
(* a colon and falls by one on decrement_indent_level.                     *)
(***************************************************************************)
EmptyCodeStore == [lines |-> << >>, indent_level |-> 0]

\* code_store.append_line(line)
AppendLine(store, line) ==
  [lines |-> Append(store.lines, [level |-> store.indent_level, text |-> line]),
   indent_level |-> store.indent_level + (IF EndsWith(line, ":") THEN 1 ELSE 0)]

\* code_store.decrement_indent_level()
DecrementIndentLevel(store) == [store EXCEPT !.indent_level = @ - 1]

(***************************************************************************)
(* RowsWithIndexWrapper._build_result_handler                              *)
(***************************************************************************)
\* "row['{0!s}']".format(column)
RowValue(column) == "row['" \o column \o "']"

\* "[row['{0!s}']]".format(column)
RowSubscript(column) == "[" \o RowValue(column) \o "]"

RECURSIVE Subscripts(_, _)
\* The subscripts of the first n columns, in order: the loops over j that build
\* stack, the line of the append and part1.
Subscripts(cols, n) == IF n = 0 THEN "" ELSE Subscripts(cols, n - 1) \o RowSubscript(cols[n])

\* The line of the first loop for its counter i (0-based).
IfLine(cols, i) == "if " \o RowValue(cols[i + 1]) \o " in ret" \o Subscripts(cols, i) \o ":"

RECURSIVE IfLines(_, _, _)
\* while i < num_of_dict: ... append_line(line); i += 1
IfLines(store, cols, i) ==
  IF i < Len(cols) THEN IfLines(AppendLine(store, IfLine(cols, i)), cols, i + 1) ELSE store

\* The line of lines 60-63, were it to assign a new list instead of appending.
AppendRowLineAssign(cols) == "ret" \o Subscripts(cols, Len(cols)) \o " = [row]"

\* The line that appends the row to the list at the end of the path.
AppendRowLine(cols) == "ret" \o Subscripts(cols, Len(cols)) \o ".append(row)"

\* part1 of the second loop for its counter i: the subscripts of columns 0..i-1.
Part1(cols, i) == Subscripts(cols, i - 1) \o RowSubscript(cols[i])

RECURSIVE Part2Opens(_, _, _)
\* while j < num_of_dict: if j + 1 != i: part2 += "{row['..']: "; j += 1
Part2Opens(cols, i, j) ==
  IF j < Len(cols)
  THEN (IF j + 1 # i THEN "{" \o RowValue(cols[j + 1]) \o ": " ELSE "") \o Part2Opens(cols, i, j + 1)
  ELSE ""

RECURSIVE Times(_, _)
\* text * n
Times(text, n) == IF n <= 0 THEN "" ELSE text \o Times(text, n - 1)

Part2(cols, i) == Part2Opens(cols, i, i - 1) \o "[row]" \o Times("}", Len(cols) - i)

ElseAssignmentLine(cols, i) == "ret" \o Part1(cols, i) \o " = " \o Part2(cols, i)

\* Lines 88-90 without the second decrement.
DecrementOnceAfterElse(store, i) == DecrementIndentLevel(store)

\* Lines 88-90: one decrement after the assignment, a second one unless i is 1.
DecrementAfterElse(store, i) ==
  IF i > 1 THEN DecrementIndentLevel(DecrementIndentLevel(store)) ELSE DecrementIndentLevel(store)

RECURSIVE ElseLines(_, _, _)
\* while i > 0: append_line('else:'); ...; i -= 1
ElseLines(store, cols, i) ==
  IF i > 0
  THEN ElseLines(DecrementAfterElse(AppendLine(AppendLine(store, "else:"), ElseAssignmentLine(cols, i)), i),
                 cols, i - 1)
  ELSE store

\* _build_execute_rows is the backend's: it emits the statement that fetches the rows.
BuildExecuteRows(store) == AppendLine(store, "rows = self.execute_rows()")

\* Lines 41-43.
BuildLoopHead(store) == AppendLine(BuildExecuteRows(AppendLine(store, "ret = {}")), "for row in rows:")

\* Lines 45-65.
BuildIfs(store, cols) == DecrementIndentLevel(AppendLine(IfLines(store, cols, 0), AppendRowLine(cols)))

\* Lines 93-95.
BuildReturn(store) == AppendLine(DecrementIndentLevel(AppendLine(store, "")), "return ret")

\* _build_result_handler
BuildResultHandlerLines(store, cols) ==
  BuildReturn(ElseLines(BuildIfs(BuildLoopHead(store), cols), cols, Len(cols)))

(***************************************************************************)
(* A run of the emitted method: Python's reading of the lines above. A     *)
(* dict is a function on its keys, a list a sequence.                      *)
(***************************************************************************)
RECURSIVE RowRefs(_, _)
\* The columns named by the row['..'] of text from position i on, in order.
RowRefsEnd(text, i, e) == << SubSeq(text, i + 5, e - 1) >> \o RowRefs(text, e)

RowRefsAt(text, at) ==
  IF at = 0 THEN << >> ELSE RowRefsEnd(text, at, SkipWhile(text, at + 5, IdentChars))

RowRefs(text, i) == RowRefsAt(text, IndexFrom(text, i, "row['"))

\* The values a row holds for a list of columns.
Keys(row, names) == [k \in 1..Len(names) |-> row[names[k]]]

RECURSIVE DictGetPath(_, _)
\* d[k1][k2]...
DictGetPath(d, path) == IF Len(path) = 0 THEN d ELSE DictGetPath(d[path[1]], Tail(path))

RECURSIVE DictSetPath(_, _, _)
\* d[k1][k2]...[kn] = value
DictSetPath(d, path, value) ==
  IF Len(path) = 0 THEN value
  ELSE [k \in DOMAIN d \cup {path[1]} |->
          IF k = path[1]
          THEN DictSetPath(IF path[1] \in DOMAIN d THEN d[path[1]] ELSE << >>, Tail(path), value)
          ELSE d[k]]

RECURSIVE Nested(_, _)
\* {k1: {k2: ... value}}
Nested(path, value) == IF Len(path) = 0 THEN value ELSE [k \in {path[1]} |-> Nested(Tail(path), value)]

\* if <key> in ret<path>:
ConditionHolds(keys, d) == keys[1] \in DOMAIN DictGetPath(d, Tail(keys))

\* ret<path>.append(row)
ExecAppend(path, d, row) == DictSetPath(d, path, Append(DictGetPath(d, path), row))

\* ret<path> = {k: ... [row]}, the assignment split at its " = "
ExecAssign(text, at, d, row) ==
  DictSetPath(d, Keys(row, RowRefs(SubSeq(text, 1, at), 1)),
              Nested(Keys(row, RowRefs(From(text, at), 1)), << row >>))

\* One simple statement of the loop's body.
ExecSimple(text, d, row) ==
  IF EndsWith(text, ".append(row)") THEN ExecAppend(Keys(row, RowRefs(text, 1)), d, row)
  ELSE IF Contains(text, " = ") THEN ExecAssign(text, IndexFrom(text, 1, " = "), d, row)
  ELSE d

RECURSIVE BlockEnd(_, _, _)
\* The first line at or after i that stands at level or less: where a block nested
\* under that level ends.
BlockEnd(lines, i, level) ==
  IF i <= Len(lines) /\ lines[i].level > level THEN BlockEnd(lines, i + 1, level) ELSE i

IsElseAt(lines, i, level) == i <= Len(lines) /\ lines[i].level = level /\ lines[i].text = "else:"

\* The first line after the if statement that starts at i.
AfterIf(lines, else_at, level) ==
  IF IsElseAt(lines, else_at, level) THEN BlockEnd(lines, else_at + 1, level) ELSE else_at

RECURSIVE ExecBlock(_, _, _, _, _)
\* The branch an if statement at line i takes.
ExecIf(lines, i, else_at, level, d, row) ==
  IF ConditionHolds(Keys(row, RowRefs(lines[i].text, 1)), d) THEN ExecBlock(lines, i + 1, level + 1, d, row)
  ELSE IF IsElseAt(lines, else_at, level) THEN ExecBlock(lines, else_at + 1, level + 1, d, row)
  ELSE d

\* The statements of one block, from line i on, at one indent level.
ExecBlock(lines, i, level, d, row) ==
  IF i > Len(lines) \/ lines[i].level < level THEN d
  ELSE IF StartsAt(lines[i].text, 1, "if ")
  THEN ExecBlock(lines, AfterIf(lines, BlockEnd(lines, i + 1, level), level), level,
                 ExecIf(lines, i, BlockEnd(lines, i + 1, level), level, d, row), row)
  ELSE ExecBlock(lines, i + 1, level, ExecSimple(lines[i].text, d, row), row)

\* The number of the line that holds text (0 when there is none).
LineOf(lines, text) ==
  LET hit == { i \in 1..Len(lines) : lines[i].text = text }
  IN IF hit = {} THEN 0 ELSE Min(hit)

\* One pass of "for row in rows:" over its body.
ExecLoopBody(lines, for_at, d, row) == ExecBlock(lines, for_at + 1, lines[for_at].level + 1, d, row)

\* The names of the grouping columns a routine may have.
ColumnNames == << "dept", "role", "team", "site" >>

\* The values a grouping column may hold.
ColumnValues == {"A", "B"}

\* A row of the result set: its grouping columns, and v, which tells the rows apart.
MakeRow(values, cols, n) ==
  [c \in { cols[k] : k \in 1..Len(cols) } \cup {"v"} |-> IF c = "v" THEN IntToStr(n) ELSE values[c]]

\* No DocBlockReflection on its own.
ReflectionIdle == comment = None /\ reflection = None

\* No bulk generator is at work.
BulkIdle ==
  /\ ReflectionIdle
  /\ bpc = "idle"
  /\ metadata_parameters = << >>
  /\ pydoc_parameters = << >>
  /\ wrapper_args = None
  /\ docstring_parameters = None
  /\ generations = 0

\* No generator is at work.
WrapperIdle ==
  /\ BulkIdle
  /\ wpc = "idle"
  /\ routine_columns = << >>
  /\ code_store = EmptyCodeStore
  /\ rows = << >>
  /\ row_number = 0
  /\ ret = << >>

\* A generator before _build_result_handler, for a routine and for the rows a later
\* call of the generated method will find.
WrapperInit(cols, result_set) ==
  /\ BulkIdle
  /\ wpc = "build"
  /\ routine_columns = cols
  /\ code_store = EmptyCodeStore
  /\ rows = result_set
  /\ row_number = 0
  /\ ret = << >>

\* _build_result_handler
BuildResultHandler ==
  /\ wpc = "build"
  /\ code_store' = BuildResultHandlerLines(code_store, routine_columns)
  /\ wpc' = "call"
  /\ UNCHANGED << routine_columns, rows, row_number, ret, loaderVars, bulkVars, reflectionVars >>

\* The generated method is entered: ret = {} and the rows are fetched.
EnterMethod ==
  /\ wpc = "call"
  /\ code_store.lines[1].text = "ret = {}"
  /\ ret' = << >>
  /\ wpc' = "loop"
  /\ UNCHANGED << routine_columns, code_store, rows, row_number, loaderVars, bulkVars, reflectionVars >>

\* for row in rows: one row
ForRow ==
  /\ wpc = "loop"
  /\ row_number < Len(rows)
  /\ ret' = ExecLoopBody(code_store.lines, LineOf(code_store.lines, "for row in rows:"), ret,
                         rows[row_number + 1])
  /\ row_number' = row_number + 1
  /\ UNCHANGED << wpc, routine_columns, code_store, rows, loaderVars, bulkVars, reflectionVars >>

\* return ret
ReturnRet ==
  /\ wpc = "loop"
  /\ row_number = Len(rows)
  /\ LineOf(code_store.lines, "return ret") > 0
  /\ wpc' = "returned"
  /\ UNCHANGED << routine_columns, code_store, rows, row_number, ret, loaderVars, bulkVars, reflectionVars >>

WrapperNext ==
  \/ BuildResultHandler
  \/ EnterMethod
  \/ ForRow
  \/ ReturnRet

(***************************************************************************)
(* CommonBulkWrapper. The methods of CommonWrapper it calls are not part   *)
(* of these sources: the signature is 'self' followed by the routine's     *)
(* parameters, and the docstring documents the entries of the record's     *)
(* pydoc parameter list in order.                                          *)
(***************************************************************************)
\* The most times a wrapper is generated from one record.
MaxGenerations == 2

RECURSIVE ArgsOf(_)
ArgsOf(params) ==
  IF Len(params) = 0 THEN ""
  ELSE ", " \o params[1].name \o ": " \o ColumnTypeToPythonTypeHint(params[1]) \o ArgsOf(Tail(params))

\* CommonWrapper._wrapper_args
CommonWrapperArgs(params) == "self" \o ArgsOf(params)

\* re.sub(r'^self', 'self, bulk_handler: BulkHandler', parameters)
WrapperArgsOf(args) ==
  IF StartsAt(args, 1, "self")
  THEN "self, bulk_handler: BulkHandler" \o From(args, 5)
  ELSE args

\* The entry of lines 42-45.
BulkHandlerParameter ==
  [name |-> "bulk_handler",
   python_type |-> "BulkHandler",
   description |-> "The bulk handler for processing the selected rows.",
   data_type_descriptor |-> None]

\* Line 46: list.insert(0, parameter) on the list of the record itself.
Insert(list) == << BulkHandlerParameter >> \o list

\* A bulk generator before its first build, for the record of a routine with
\* the parameters params.
BulkInit(params) ==
  /\ bpc = "wrapper_args"
  /\ metadata_parameters = params
  /\ pydoc_parameters =
       GetDocBlockPartsWrapper([description |-> "Test.", parameters |-> << >>], params).parameters
  /\ wrapper_args = None
  /\ docstring_parameters = None
  /\ generations = 0

\* CommonBulkWrapper._wrapper_args
WrapperArgs ==
  /\ bpc = "wrapper_args"
  /\ wrapper_args' = Some(WrapperArgsOf(CommonWrapperArgs(metadata_parameters)))
  /\ bpc' = "build_docstring_parameters"
  /\ UNCHANGED << metadata_parameters, pydoc_parameters, docstring_parameters, generations,
                  loaderVars, wrapperVars, reflectionVars >>

\* CommonBulkWrapper._build_docstring_parameters; the wrapper may then be
\* generated again from the same record.
BuildDocstringParameters ==
  /\ bpc = "build_docstring_parameters"
  /\ pydoc_parameters' = Insert(pydoc_parameters)
  /\ docstring_parameters' = Some(Insert(pydoc_parameters))
  /\ generations' = generations + 1
  /\ bpc' = IF generations + 1 < MaxGenerations THEN "wrapper_args" ELSE "built"
  /\ UNCHANGED << metadata_parameters, wrapper_args, loaderVars, wrapperVars, reflectionVars >>

BulkNext ==
  \/ WrapperArgs
  \/ BuildDocstringParameters

(***************************************************************************)
(* DocBlockReflection on its own.                                          *)
(***************************************************************************)
\* What the object holds after its constructor, for the cleaned lines.
ReflectionOf(cleaned) ==
  [description |-> DescriptionOf(cleaned), tags |-> TagsFrom(cleaned, << >>, FALSE)]

\* DocBlockReflection(comment)
Reflect ==
  /\ comment # None
  /\ reflection = None
  /\ reflection' = Some(ReflectionOf(CleanDocBlock(comment[1])))
  /\ UNCHANGED << comment, loaderVars, wrapperVars, bulkVars >>

vars == << loaderVars, wrapperVars, bulkVars, reflectionVars >>

(***************************************************************************)
(* The inputs: source files put together from a doc block, the line that   *)
(* starts the routine, a pragma line, and a body.                          *)
(***************************************************************************)
\* The longest designation argument, in pieces of ArgAtoms.
MaxArgPieces == 3

\* The most placeholder tokens in the body of a source file.
MaxTokens == 3

\* The most grouping columns of a rows_with_index routine.
MaxColumns == 2

\* The most rows of a result set.
MaxRows == 3

RECURSIVE Concat(_)
Concat(list) == IF Len(list) = 0 THEN "" ELSE list[1] \o Concat(Tail(list))

\* The pieces a designation argument is made of.
ArgAtoms == {"a", ",", " "}

Arguments == { Concat(f) : f \in UNION { [1..k -> ArgAtoms] : k \in 0..MaxArgPieces } }

\* The keywords the files are written with: two of those that take no argument
\* beside none, and the three that take one.
Keywords == {"none", "rows", "log", "rows_with_key", "rows_with_index", "bulk_insert"}

\* A designation as written in a source file: None, or Some of keyword and argument.
Designations == {None} \cup { Some(<< kw, arg >>) : kw \in Keywords, arg \in Arguments }

\* The doc tags of the files whose pragma varies.
FixedTags == {None, Some(<< "bulk_insert", "a" >>), Some(<< "none", "" >>)}

DocBlockOf(tag) ==
  IF tag = None THEN << >>
  ELSE << "/**", " * Test.", " *", " * @type " \o tag[1][1] \o " " \o tag[1][2], " */" >>

PragmaOf(pragma) ==
  IF pragma = None THEN << >> ELSE << "-- type: " \o pragma[1][1] \o " " \o pragma[1][2] >>

\* The text of a source file.
SourceText(tag, pragma, body) ==
  Join(DocBlockOf(tag) \o << "create procedure p()" >> \o PragmaOf(pragma) \o << "begin", body, "end" >>,
       "\n")

\* The placeholder tokens of the bodies, and what separates two of them.
Tokens == {"@a@", "@A@", "@a.b@", "@axb@", "@u@"}

Separators == {" ", "\n"}

RECURSIVE BodyOf(_, _)
BodyOf(tokens, seps) ==
  IF Len(tokens) = 0 THEN ""
  ELSE IF Len(tokens) = 1 THEN tokens[1]
  ELSE tokens[1] \o seps[1] \o BodyOf(Tail(tokens), Tail(seps))

Bodies ==
  UNION { { BodyOf(t, s) : t \in [1..k -> Tokens], s \in [1..(k - 1) -> Separators] } : k \in 0..MaxTokens }

\* The caller's tables: the keys are lower-cased placeholders.
Tables ==
  { << << "@a@", "1" >>, << "@a.b@", "2" >>, << "@axb@", "3" >> >>,
    << << "@a@", "1" >> >> }

\* A record of an earlier compilation, as the caller passes it.
OldMetadata ==
  [routine_name |-> Some("r"), designation |-> Some("none"), table_name |-> None,
   parameters |-> << >>, columns |-> None, fields |-> None, column_types |-> None,
   timestamp |-> 100, replace |-> << >>, pydoc |-> None]

\* Source files of every kind: sound ones under each strategy, and one for each
\* fatal condition of the text.
BaseTexts ==
  { SourceText(None, Some(<< "none", "" >>), "select @a@;"),
    SourceText(None, Some(<< "bulk_insert", "orders id,name" >>), "select 1;"),
    SourceText(Some(<< "rows_with_index", "dept,role" >>), None, "select @A@, @a@;"),
    SourceText(None, None, "select 1;"),
    SourceText(None, Some(<< "none", "" >>), "select @u@;"),
    SourceText(None, Some(<< "bulk_insert", "orders" >>), "select 1;") }

\* The files whose body varies: the pragma varies with the two plainest bodies only.
Headers == {None, Some(<< "none", "" >>), Some(<< "bulk_insert", "orders id" >>)}

PlainBodies == {"", "@u@"}

Init ==
  /\ \E text \in BaseTexts, pairs \in Tables, old \in {None, Some(OldMetadata)} :
       LoaderInit(text, pairs, old)
  /\ WrapperIdle

InitDesignation ==
  /\ \E pragma \in Designations, tag \in Designations :
       /\ pragma = None \/ tag \in FixedTags
       /\ LoaderInit(SourceText(tag, pragma, "select 1;"), << >>, None)
  /\ WrapperIdle

InitSubstitute ==
  /\ \E header \in Headers, body \in Bodies, pairs \in Tables :
       /\ header = Some(<< "none", "" >>) \/ body \in PlainBodies
       /\ LoaderInit(SourceText(None, header, body), pairs, None)
  /\ WrapperIdle

InitWrapper ==
  /\ LoaderInit(SourceText(Some(<< "rows_with_index", "dept,role" >>), None, "select 1;"), << >>, None)
  /\ \E n \in 1..MaxColumns, m \in 0..MaxRows :
       \E f \in [1..m -> [{ ColumnNames[k] : k \in 1..n } -> ColumnValues]] :
         WrapperInit(SubSeq(ColumnNames, 1, n), [i \in 1..m |-> MakeRow(f[i], SubSeq(ColumnNames, 1, n), i)])

\* The most lines a source file holds before its doc block.
MaxLeadLines == 2

RECURSIVE Repeat(_, _)
Repeat(line, n) == IF n = 0 THEN << >> ELSE << line >> \o Repeat(line, n - 1)

\* The doc blocks of the files whose layout varies: none, two single ones, one that
\* is never closed, and two in a row.
DocBlocks ==
  { << >>,
    << "/**", " * @type bulk_insert t a", " */" >>,
    << "/**", " * Test.", " *", " * @param p1 One.", " * @type none", " */" >>,
    << "/**", " * @type none" >>,
    << "/**", " * Old.", " */", "/**", " * Test.", " * @type bulk_insert t a", " */" >> }

\* A file with lead lines before its doc block and gap lines after it.
DocBlockFile(lead, block, gap) ==
  Join(Repeat("-- x", lead) \o block \o Repeat("", gap)
         \o << "create procedure p(p1 int)", "begin", "select 1;", "end" >>, "\n")

InitDocBlock ==
  /\ \E lead \in 0..MaxLeadLines, block \in DocBlocks, gap \in 0..1 :
       LoaderInit(DocBlockFile(lead, block, gap), << >>, None)
  /\ WrapperIdle

\* The most blocks nested in the body of a routine.
MaxNested == 1

\* The pragma lines of the files whose pragma moves, and their doc tags.
MovingPragmas == {"-- type: none", "-- type: bulk_insert t a"}

MovingTags == {None, Some(<< "log", "" >>)}

\* The pragma when it is written at the slot, nothing otherwise.
At(slot, here, pragma) == IF slot = here THEN << pragma >> ELSE << >>

RECURSIVE NestedBlocks(_)
NestedBlocks(n) ==
  IF n = 0 THEN << >> ELSE << "begin", "select 1;", "end;" >> \o NestedBlocks(n - 1)

\* A file with the pragma before the routine (slot 0), between its start and its
\* body (slot 1) or right after the first line of its body (slot 2), and with
\* nested blocks in the body.
PragmaFile(tag, slot, pragma, nested) ==
  Join(DocBlockOf(tag) \o At(slot, 0, pragma) \o << "create procedure p()" >>
         \o At(slot, 1, pragma) \o << "begin" >> \o At(slot, 2, pragma)
         \o NestedBlocks(nested) \o << "select 1;", "end" >>, "\n")

InitPragma ==
  /\ \E tag \in MovingTags, slot \in 0..2, pragma \in MovingPragmas, nested \in 0..MaxNested :
       LoaderInit(PragmaFile(tag, slot, pragma, nested), << >>, None)
  /\ WrapperIdle

\* The most @param tags of a doc block.
MaxDocParams == 2

\* The names the @param tags document.
DocParamNames == {"p1", "p2", "p3"}

ParamTags(names) == [i \in 1..Len(names) |-> " * @param " \o names[i] \o " It."]

\* A file whose doc block documents the parameters names, with the designation tag.
ParamFile(names, tag) ==
  Join(<< "/**", " * Test.", " *" >> \o ParamTags(names) \o << " * @type " \o tag, " */",
          "create procedure p()", "begin", "select 1;", "end" >>, "\n")

InitParameters ==
  /\ \E k \in 0..MaxDocParams, tag \in {"none", "bulk_insert t a"} :
       \E names \in [1..k -> DocParamNames] : LoaderInit(ParamFile(names, tag), << >>, None)
  /\ WrapperIdle

\* The values the caller's table may hold for a placeholder: a value of one line,
\* the empty value, and a value of two lines.
ReplacementValues == {"1", "", "x\ny"}

\* The doc tag and the pragma of these files.
TagsAndPragmas ==
  { << None, Some(<< "none", "" >>) >>, << None, Some(<< "bulk_insert", "orders id" >>) >>,
    << Some(<< "none", "" >>), None >> }

InitLineCount ==
  /\ \E head \in TagsAndPragmas, k \in 0..MaxTokens, value \in ReplacementValues :
       \E seps \in [1..(k - 1) -> Separators] :
         LoaderInit(SourceText(head[1], head[2], BodyOf([i \in 1..k |-> "@a@"], seps)),
                    << << "@a@", value >> >>, None)
  /\ WrapperIdle

\* The most parameters of a routine with a bulk wrapper.
MaxRoutineParams == 3

\* The parameters the routines of the records have.
RoutineParameters ==
  { [name |-> "p1", data_type_descriptor |-> "int"],
    [name |-> "p2", data_type_descriptor |-> "varchar(10)"],
    [name |-> "self_id", data_type_descriptor |-> "int"] }

InitBulk ==
  /\ LoaderInit(SourceText(None, Some(<< "bulk_insert", "orders id" >>), "select 1;"), << >>, None)
  /\ wpc = "idle"
  /\ routine_columns = << >>
  /\ code_store = EmptyCodeStore
  /\ rows = << >>
  /\ row_number = 0
  /\ ret = << >>
  /\ ReflectionIdle
  /\ \E k \in 0..MaxRoutineParams : \E params \in [1..k -> RoutineParameters] : BulkInit(params)

\* The most lines between the first and the last line of a doc block.
MaxBlockLines == 3

\* The lines a doc block is made of: text, an empty line, tags with white space
\* of every kind around them, and a line that goes on with the text before it.
BlockLines ==
  { " * Hello World", "", "   * @param p1  ", "* @param p2 This is param2. ",
    " *           This is more about it", " * @type none" }

\* The first and the last line of a doc block, well and badly spaced.
BlockEnds == { << "/**", " */" >>, << "  /**", "  */  " >> }

\* The doc blocks of the unit tests of DocBlockReflection.
TestBlocks ==
  { << >>,
    << "/** Hello World */" >>,
    << "/**", "  * Hello World", "  */" >>,
    << "/**", " * Hello World", " *", " * @param p1 This is param1.", " * @param p2 This is param2.", " */" >>,
    << " /**", " * Hello World", "", " ", "   * @param p1  ", "* @param p2 This is param2. ", " */ " >>,
    << "/**", " * @param p1 This is param1.", " * @param p2 This is param2.", " */" >>,
    << "/**", " * Hello World.", " * ", " * @param p1 This is param1.", " * @param p2 This is param2.",
       " *           This is more about param2", " */" >>,
    << "/**", " * Test for designation type singleton0.", " *",
       " * @param int :p_count The number of rows selected.", " *", " * @type   singleton0",
       " * @return int|null", " */" >> }

InitReflection ==
  /\ LoaderInit(SourceText(None, None, "select 1;"), << >>, None)
  /\ wpc = "idle"
  /\ routine_columns = << >>
  /\ code_store = EmptyCodeStore
  /\ rows = << >>
  /\ row_number = 0
  /\ ret = << >>
  /\ bpc = "idle"
  /\ metadata_parameters = << >>
  /\ pydoc_parameters = << >>
  /\ wrapper_args = None
  /\ docstring_parameters = None
  /\ generations = 0
  /\ reflection = None
  /\ \/ \E block \in TestBlocks : comment = Some(block)
     \/ \E ends \in BlockEnds, k \in 0..MaxBlockLines :
          \E inner \in [1..k -> BlockLines] : comment = Some(<< ends[1] >> \o inner \o << ends[2] >>)

\* The most pragma lines between the start of a routine and its body.
MaxPragmas == 2

\* The pragma lines of the files with several of them: keywords with and without
\* an argument, one in capitals, and a word that is no designation.
PragmaLines ==
  { "-- type: none", "-- type: Rows", "-- type: rows_with_key a", "-- type: bulk_insert t a",
    "-- type: table" }

\* A file with the pragma lines between the start of the routine and its body.
PragmasFile(tag, pragmas) ==
  Join(DocBlockOf(tag) \o << "create procedure p()" >> \o pragmas \o << "begin", "select 1;", "end" >>,
       "\n")

InitPragmas ==
  /\ \E k \in 0..MaxPragmas, tag \in MovingTags :
       \E pragmas \in [1..k -> PragmaLines] :
         /\ k = 0 \/ tag = None
         /\ LoaderInit(PragmasFile(tag, pragmas), << >>, None)
  /\ WrapperIdle

\* What the bodies with the current-line token are made of: the token as the code
\* spells it, the token in small letters, and a word that is no token.
LineTokens == {"__LINE__", "__line__", "x"}

InitLineToken ==
  /\ \E head \in TagsAndPragmas, k \in 0..MaxTokens :
       \E tokens \in [1..k -> LineTokens], seps \in [1..(k - 1) -> Separators] :
         LoaderInit(SourceText(head[1], head[2], BodyOf(tokens, seps)), << >>, None)
  /\ WrapperIdle

\* The @param lines of the files whose descriptions vary: with a text, without
\* one, and a second tag for a name.
ParamLines == {" * @param p1 One.", " * @param p1", " * @param p2 Two.", " * @param p1 Again."}

\* A file whose doc block holds the @param lines, with the designation tag.
DescriptionFile(param_lines, tag) ==
  Join(<< "/**", " * Test.", " *" >> \o param_lines \o << " * @type " \o tag, " */",
          "create procedure p()", "begin", "select 1;", "end" >>, "\n")

InitDescriptions ==
  /\ \E k \in 0..MaxDocParams, tag \in {"none", "bulk_insert t a"} :
       \E param_lines \in [1..k -> ParamLines] :
         LoaderInit(DescriptionFile(param_lines, tag), << >>, None)
  /\ WrapperIdle

Next == LoaderNext

\* load_stored_routine on source files of every kind.
Spec == Init /\ [][Next]_vars

\* load_stored_routine on every designation the pieces make.
SpecDesignation == InitDesignation /\ [][Next]_vars

\* load_stored_routine on every body the tokens make.
SpecSubstitute == InitSubstitute /\ [][Next]_vars

\* load_stored_routine on files whose doc block documents any parameters.
SpecParameters == InitParameters /\ [][Next]_vars

\* load_stored_routine on known placeholders with values of every kind.
SpecLineCount == InitLineCount /\ [][Next]_vars

\* load_stored_routine on files whose pragma is at any place.
SpecPragma == InitPragma /\ [][Next]_vars

\* load_stored_routine on files whose doc block starts at any line.
SpecDocBlock == InitDocBlock /\ [][Next]_vars

\* load_stored_routine on files with any pragma lines in the specification region.
SpecPragmas == InitPragmas /\ [][Next]_vars

\* load_stored_routine on bodies that hold the current-line token.
SpecLineToken == InitLineToken /\ [][Next]_vars

\* load_stored_routine on files whose @param tags have a text or none.
SpecDescriptions == InitDescriptions /\ [][Next]_vars

\* DocBlockReflection on doc blocks of every make.
SpecReflection == InitReflection /\ [][Reflect]_vars

\* CommonBulkWrapper at work on one record, once and again.
SpecBulk == InitBulk /\ [][BulkNext]_vars

\* _build_result_handler, and a call of the method it generates.
SpecWrapper == InitWrapper /\ [][WrapperNext]_vars

(***************************************************************************)
(* What the claims speak of.                                               *)
(***************************************************************************)
\* The step has been called in this run of load_stored_routine.
Did(step) == SeqHas(trace, step)

\* The designation fields as __init__ leaves them.
BlankDesignation ==
  [designation_type |-> None, table_name |-> None, columns |-> None, exception |-> None]

\* What each strategy makes of the source file, taken alone.
LegacyResult == GetDesignationTypeOldResult(Split(file_text, "\n"), BlankDesignation)

DocTagResult == GetDesignationTypeNewResult(Split(file_text, "\n"), BlankDesignation)

\* The number of error() calls the output collaborator has received.
ErrorsLogged == Cardinality({ i \in 1..Len(io_log) : io_log[i][1] = "error" })

\* The placeholder occurrences of the source file, and those the caller's table lacks.
Occurrences == FindPlaceholders(file_text, 1)

UnknownIn(found) == { i \in 1..Len(found) : ~DictHas(replace_pairs, Lower(found[i])) }

UnknownAt == UnknownIn(Occurrences)

UnknownMessageFor(token) == "Unknown placeholder '" \o token \o "' in file /d/r.sql"

\* C1: load_stored_routine never lets an exception escape. A run ends with the
\* sentinel False exactly when a fatal condition was raised in it (whatever step
\* raised it, a backend step included), and it has then logged exactly one error,
\* the message of that exception; every other run returns the metadata record and
\* logs no error.
C1_NoExceptionEscapes ==
  /\ pc # "done" => result = None
  /\ pc = "done" =>
       /\ result # None
       /\ result[1].kind \in {"False", "metadata"}
       /\ (result[1].kind = "False") <=> (exception # None)
       /\ exception # None =>
            /\ ErrorsLogged = 1
            /\ io_log[Len(io_log)][1] = "error"
            /\ Join(io_log[Len(io_log)][2], "\n") = Strip(exception[1].message)
       /\ exception = None =>
            /\ ErrorsLogged = 0
            /\ result[1].ref = pystratum_metadata

\* C1's case: a backend step raised, and the run ended with False and one error.
C1_Witness ==
  /\ pc = "done"
  /\ exception # None
  /\ exception[1].class = "Exception"
  /\ result = Some([kind |-> "False", ref |-> "none"])
  /\ ErrorsLogged = 1

\* The order of the two strategies, for what each makes of the file taken alone.
LegacyFirstFor(legacy, doc_tag) ==
  /\ Did("get_designation_type_new") =>
       /\ legacy.designation_type = None
       /\ legacy.exception = None
       /\ << designation_type, table_name, columns >> =
            << doc_tag.designation_type, doc_tag.table_name, doc_tag.columns >>
       /\ doc_tag.exception # None => exception = doc_tag.exception
       /\ doc_tag.designation_type = None =>
            /\ exception # None
            /\ exception[1].class = "LoaderException"
            /\ StartsAt(exception[1].message, 1, "Unable to find the designation type")
  /\ (legacy.designation_type # None /\ legacy.exception = None) =>
       /\ ~Did("get_designation_type_new")
       /\ << designation_type, table_name, columns >> =
            << legacy.designation_type, legacy.table_name, legacy.columns >>
       /\ exception # None => exception[1].class # "LoaderException"

\* C2: the designation is decided in a fixed order. The doc-tag strategy is called
\* only when the legacy strategy yielded no designation; when the legacy strategy
\* yields one, the fields are what it yielded and no designation error is raised,
\* whatever the doc block holds; when the doc-tag strategy is called, the fields
\* are what it yields, and a doc block that yields none is fatal.
C2_LegacyStrategyFirst ==
  Did("get_designation_type_old") => LegacyFirstFor(LegacyResult, DocTagResult)

\* C2's case: a pragma, and a doc tag with another keyword that is malformed too;
\* the pragma decided.
C2_Witness ==
  /\ pc = "get_name"
  /\ Contains(file_text, "-- type: rows_with_key a")
  /\ Contains(file_text, "@type bulk_insert a")
  /\ designation_type = Some("rows_with_key")
  /\ columns = Some(<< "a" >>)

\* C3 (as the spec states it): whenever resolution succeeds for rows_with_key or
\* rows_with_index, the column list holds at least one column and every column
\* name in it is non-empty.
C3_ColumnsNonEmpty ==
  (pc = "get_name" /\ designation_type \in {Some("rows_with_key"), Some("rows_with_index")}) =>
    /\ columns # None
    /\ Len(columns[1]) >= 1
    /\ \A i \in 1..Len(columns[1]) : columns[1][i] # ""

\* C4 (as the spec states it): whenever resolution succeeds for bulk_insert, the
\* table name is non-empty and every column is a non-empty name.
C4_BulkInsertWellFormed ==
  (pc = "get_name" /\ designation_type = Some("bulk_insert")) =>
    /\ table_name # None
    /\ table_name[1] # ""
    /\ columns # None
    /\ Len(columns[1]) >= 1
    /\ \A i \in 1..Len(columns[1]) : columns[1][i] # ""

\* The run has failed on the placeholder named by message.
FailedOnPlaceholder(message) ==
  /\ exception = Some([class |-> "LoaderException", message |-> message])
  /\ ~Did("get_designation_type_old")
  /\ ~Did("get_designation_type_new")
  /\ pc = "done" =>
       /\ result = Some([kind |-> "False", ref |-> "none"])
       /\ io_log = << << "error", << message >> >> >>

FirstUnknownFatalAmong(found, unknown) ==
  unknown # {} => FailedOnPlaceholder(UnknownMessageFor(found[Min(unknown)]))

FirstUnknownFatalIn(found) == FirstUnknownFatalAmong(found, UnknownIn(found))

RECURSIVE ExpectedFrom(_, _, _)
\* The text from position i on with every placeholder occurrence replaced by the
\* value the table holds for its lower-cased form.
ExpectedAfter(text, pairs, i, a, e) ==
  IF e = 0 THEN SubSeq(text, i, a) \o ExpectedFrom(text, pairs, a + 1)
  ELSE SubSeq(text, i, a - 1) \o DictGet(pairs, Lower(SubSeq(text, a, e))) \o ExpectedFrom(text, pairs, e + 1)

ExpectedAt(text, pairs, i, a) ==
  IF a = 0 THEN From(text, i) ELSE ExpectedAfter(text, pairs, i, a, PlaceholderEndAt(text, a))

ExpectedFrom(text, pairs, i) == ExpectedAt(text, pairs, i, IndexFrom(text, i, "@"))

\* C6 (as the spec states it): after the substitution pass every placeholder
\* occurrence of the source stands replaced by the value of its lower-cased form,
\* and nothing else of the text has changed.
C6_EveryPlaceholderReplaced ==
  Did("substitute_replace_pairs") =>
    routine_source_code = Some(ExpectedFrom(file_text, replace_pairs, 1))

\* The rows the loop has handled so far.
Handled == SubSeq(rows, 1, row_number)

\* The row holds the values of path in the first grouping columns.
RowIsUnder(row, path) == \A k \in 1..Len(path) : row[routine_columns[k]] = path[k]

RECURSIVE RowsUnder(_, _)
\* The rows of list that lie under path, in the order of list.
RowsUnder(list, path) ==
  IF Len(list) = 0 THEN << >>
  ELSE (IF RowIsUnder(list[1], path) THEN << list[1] >> ELSE << >>) \o RowsUnder(Tail(list), path)

RECURSIVE Reaches(_, _)
\* d holds the keys of path, nested in that order.
Reaches(d, path) ==
  Len(path) = 0 \/ (path[1] \in DOMAIN d /\ Reaches(d[path[1]], Tail(path)))

\* C7: during and after a call of the generated method, ret is the nested index of
\* the rows handled so far: a path of values of the first n grouping columns is in
\* ret exactly when a handled row lies under it, the keys below a path that is not
\* complete are column values, and a complete path leads to the list of exactly the
\* handled rows under it, in the order of arrival.
C7_NestedIndex ==
  wpc \in {"loop", "returned"} =>
    /\ DOMAIN ret \subseteq ColumnValues
    /\ \A n \in 1..Len(routine_columns) : \A path \in [1..n -> ColumnValues] :
         /\ Reaches(ret, path) <=> (RowsUnder(Handled, path) # << >>)
         /\ (Reaches(ret, path) /\ n < Len(routine_columns)) =>
              DOMAIN DictGetPath(ret, path) \subseteq ColumnValues
         /\ (Reaches(ret, path) /\ n = Len(routine_columns)) =>
              DictGetPath(ret, path) = RowsUnder(Handled, path)

\* C7's case: two grouping columns, three rows, two of them under the path (A, A)
\* and the third under another path; the method has returned.
C7_Witness ==
  /\ wpc = "returned"
  /\ Len(routine_columns) = 2
  /\ row_number = 3
  /\ Reaches(ret, << "A", "A" >>)
  /\ Len(DictGetPath(ret, << "A", "A" >>)) = 2
  /\ Reaches(ret, << "A", "B" >>)

\* The lines of the generated method that open and that close a conditional.
IfLinesAt == { i \in 1..Len(code_store.lines) : StartsAt(code_store.lines[i].text, 1, "if ") }

ElseLinesAt == { i \in 1..Len(code_store.lines) : code_store.lines[i].text = "else:" }

\* The line whose block the line at e closes or follows: the last line before e
\* that stands at the level of e or less (0 when there is none).
Opener(e) ==
  LET before == { i \in 1..(e - 1) : code_store.lines[i].level <= code_store.lines[e].level }
  IN IF before = {} THEN 0 ELSE Max(before)

\* C8: once _build_result_handler has run for N grouping columns, the code store
\* holds N if lines and N else lines, every else stands at the level of the if
\* whose block it closes, N = 1 leaves no nested container in the lines, and
\* 'return ret' stands at the level of 'ret = {}', which is the level the store
\* is left at.
C8_IndentationBalanced ==
  wpc # "build" /\ wpc # "idle" =>
    /\ Cardinality(IfLinesAt) = Len(routine_columns)
    /\ Cardinality(ElseLinesAt) = Len(routine_columns)
    /\ \A e \in ElseLinesAt :
         /\ Opener(e) \in IfLinesAt
         /\ code_store.lines[Opener(e)].level = code_store.lines[e].level
    /\ \A e1 \in ElseLinesAt, e2 \in ElseLinesAt : Opener(e1) = Opener(e2) => e1 = e2
    /\ Len(routine_columns) = 1 => \A i \in 1..Len(code_store.lines) : ~Contains(code_store.lines[i].text, "{row")
    /\ LineOf(code_store.lines, "ret = {}") = 1
    /\ LineOf(code_store.lines, "return ret") = Len(code_store.lines)
    /\ code_store.lines[Len(code_store.lines)].level = code_store.lines[1].level
    /\ code_store.indent_level = code_store.lines[1].level

\* C8's case: the generator has run for two grouping columns, so that an inner
\* conditional was closed inside an outer one.
C8_Witness ==
  /\ wpc = "call"
  /\ Len(routine_columns) = 2
  /\ Cardinality(ElseLinesAt) = 2

\* The entries _set_magic_constants and the substitution pass add to the table.
MagicKeys == {"__FILE__", "__ROUTINE__", "__DIR__", "__LINE__"}

\* C9 (as the spec states it): the table stored in the metadata record of a
\* successful compilation holds none of the four magic entries.
C9_NoMagicInMetadata ==
  (pc = "done" /\ Did("update_metadata")) =>
    \A k \in MagicKeys : ~DictHas(Deref(pystratum_metadata)[1].replace, k)

\* C10 (as the spec states it): every fatal error message of the pipeline holds
\* the path of the source file.
C10_MessageNamesFile ==
  (exception # None /\ exception[1].class = "LoaderException") =>
    Contains(exception[1].message, SourceFilename)

\* The keywords of the files that take no argument.
NoArgumentKeywords == {"none", "rows", "log"}

\* The lines of the source file.
FileLines == Split(file_text, "\n")

\* The argument written after a keyword on a line that starts with lead, or None.
ArgumentAfter(line, lead, kw) ==
  IF StartsAt(line, 1, lead \o kw \o " ") THEN Some(From(line, Len(lead) + Len(kw) + 2)) ELSE None

\* The outcome of the resolution for a keyword without argument, as written with arg.
NoArgumentOutcome(kw, arg, message) ==
  IF Strip(arg) # ""
  THEN /\ exception = Some(LoaderException(message))
       /\ pc \in {"except", "done"}
       /\ ~Did("get_name")
  ELSE /\ designation_type = Some(kw)
       /\ table_name = None
       /\ columns = None
       /\ pc = "get_name" \/ Did("get_name")

NoArgumentPragma(lines, kw) ==
  (/\ Len(lines) >= 2
   /\ lines[1] = "create procedure p()"
   /\ ArgumentAfter(lines[2], "-- type: ", kw) # None) =>
     NoArgumentOutcome(kw, ArgumentAfter(lines[2], "-- type: ", kw)[1], "Expected: -- type: " \o kw)

NoArgumentTag(lines, kw) ==
  (/\ Len(lines) >= 7
   /\ lines[1] = "/**"
   /\ ArgumentAfter(lines[4], " * @type ", kw) # None
   /\ lines[6] = "create procedure p()"
   /\ lines[7] = "begin"
   /\ Did("get_designation_type_new")) =>
     NoArgumentOutcome(kw, ArgumentAfter(lines[4], " * @type ", kw)[1], "Expected: @type " \o kw)

NoArgumentKeywordIn(lines) ==
  \A kw \in NoArgumentKeywords : NoArgumentPragma(lines, kw) /\ NoArgumentTag(lines, kw)

\* C11: a keyword that takes no argument, written with non-blank argument text, is
\* a fatal resolution error under the legacy pragma and under the doc tag (the
\* error of that strategy is raised and no later step runs); written with nothing
\* or with white space only after it, it resolves to that keyword, with no table
\* and no columns, and the run goes on to the name extraction.
C11_NoArgumentKeyword ==
  Did("get_designation_type_old") => NoArgumentKeywordIn(FileLines)

\* C11's case: the doc tag "@type rows a" has been refused.
C11_Witness ==
  /\ pc = "done"
  /\ Contains(file_text, " * @type rows a \n")
  /\ ~Contains(file_text, "-- type:")
  /\ exception = Some(LoaderException("Expected: @type rows"))

\* C11's other case: the pragma "-- type: log" with white space after it decided.
C11_WitnessBlank ==
  /\ pc = "get_name"
  /\ Contains(file_text, "-- type: log   \n")
  /\ designation_type = Some("log")

\* The lines before the first line that starts the routine.
BeforeRoutine(lines) ==
  LET starts == { i \in 1..Len(lines) : IsStartOfStoredRoutine(lines[i]) }
  IN IF starts = {} THEN lines ELSE SubSeq(lines, 1, Min(starts) - 1)

\* The block from the first line with the open marker through the first line
\* with the close marker, among the lines head; the empty list without such a pair.
FirstBlockOf(head) ==
  LET opens == { i \in 1..Len(head) : IsDocBlockOpen(head[i]) }
      closes == { i \in 1..Len(head) : IsDocBlockClose(head[i]) }
  IN IF opens = {} \/ closes = {} \/ Min(opens) > Min(closes) THEN << >>
     ELSE SubSeq(head, Min(opens), Min(closes))

\* C12 (as the spec states it): the lines handed to the DocBlock parser, by the
\* doc-tag strategy and by the extraction of the description and the @param tags,
\* are the source lines from the first open-marker line through the first
\* close-marker line before the routine, wherever the block starts.
C12_DocBlockLinesExact ==
  doc_block # None => doc_block[1] = FirstBlockOf(BeforeRoutine(FileLines))

\* The lines strictly between the first line that starts the routine and the
\* first line that starts its body (none when either is missing).
SpecificationRegion(lines) ==
  LET starts == { i \in 1..Len(lines) : IsStartOfStoredRoutine(lines[i]) }
      bodies == { i \in 1..Len(lines) : IsStartOfStoredRoutineBody(lines[i]) }
  IN IF starts = {} \/ bodies = {} THEN << >>
     ELSE SubSeq(lines, Min(starts) + 1, Min(bodies) - 1)

HasPragma(region) == \E i \in 1..Len(region) : MatchPragma(region[i]) # None

\* The legacy strategy has run and has left the designation to the doc-tag strategy.
LeftToDocTag ==
  /\ Did("get_designation_type_old")
  /\ pc = "get_designation_type_new" \/ Did("get_designation_type_new")

\* C13 (as the spec states it): a pragma line decides the designation only when
\* it lies strictly between the first routine-start line and the first body-start
\* line: when no pragma-shaped line lies there, the legacy strategy yields nothing
\* and raises nothing, and the doc-tag strategy is called, also when several lines
\* pass the body-start test.
C13_PragmaOnlyInsideRegion ==
  (Did("get_designation_type_old") /\ ~HasPragma(SpecificationRegion(FileLines))) => LeftToDocTag

\* How many entries of the output log are this entry.
LogCount(entry) == Cardinality({ i \in 1..Len(io_log) : io_log[i] = entry })

\* How many parameters of list bear the name and have no namesake in others.
Unmatched(list, others, name) ==
  Cardinality({ i \in 1..Len(list) :
                  list[i].name = name /\ \A j \in 1..Len(others) : others[j].name # name })

\* The warnings in the log are those the two lists call for, one for one.
WarningsMatch(database, documented) ==
  /\ \A name \in DocParamNames :
        /\ LogCount(<< "warning", "Parameter " \o name \o " is missing in doc block" >>)
             = Unmatched(database, documented, name)
        /\ LogCount(<< "warning", "Unknown parameter " \o name \o " found in doc block" >>)
             = Unmatched(documented, database, name)
  /\ \A i \in 1..Len(io_log) :
        \/ io_log[i][1] = "error"
        \/ \E name \in DocParamNames :
              io_log[i] \in { << "warning", "Parameter " \o name \o " is missing in doc block" >>,
                              << "warning", "Unknown parameter " \o name \o " found in doc block" >> }

\* After the reconciliation the log holds the warnings called for, the step raised
\* nothing, and the run is at the metadata assembly or past it.
ReconciliationOutcome ==
  Did("validate_parameter_lists") =>
    /\ WarningsMatch(parameters, doc_block_parts_source[1].parameters)
    /\ exception = None
    /\ pc \in {"update_metadata", "return", "done"}
    /\ Did("update_metadata") => Deref(pystratum_metadata)[1].parameters = parameters

\* The reconciliation step changes neither the parameter list nor the documented
\* parameters, and hands over to the metadata assembly.
ReconciliationStep ==
  pc = "validate_parameter_lists" =>
    /\ parameters' = parameters
    /\ doc_block_parts_source' = doc_block_parts_source
    /\ pc' = "update_metadata"

\* C14: the reconciliation only produces diagnostics. It logs one 'missing in doc
\* block' warning for each RDBMS parameter whose name is not documented, one
\* 'unknown parameter' warning for each documented parameter whose name the RDBMS
\* does not report, and nothing else; it raises nothing and leaves the parameter
\* list as it is; the run goes on to the metadata assembly.
C14_ReconciliationOnlyWarns == []ReconciliationOutcome /\ [][ReconciliationStep]_vars

\* C14's case: p1 is reported and not documented, p3 is documented and not
\* reported, and both warnings are logged, in that order.
C14_Witness ==
  /\ pc = "update_metadata"
  /\ Len(parameters) = 1
  /\ parameters[1].name = "p1"
  /\ Contains(file_text, "@param p3")
  /\ ~Contains(file_text, "@param p1")
  /\ io_log = << << "warning", "Parameter p1 is missing in doc block" >>,
                 << "warning", "Unknown parameter p3 found in doc block" >> >>

\* C15: no step of load_stored_routine adds, removes or changes an entry of the
\* caller's substitution table: the placeholders and the magic entries go to the
\* routine's working table only, in runs that succeed and in runs that fail.
C15_CallerTableUntouched == [][replace_pairs' = replace_pairs]_vars

\* C15's case: a run has ended with the placeholder @A@ and the magic entries in
\* the working table, and the caller's table holds neither.
C15_Witness ==
  /\ pc = "done"
  /\ DictHas(replace, "@A@")
  /\ MagicKeys \subseteq { replace[i][1] : i \in 1..Len(replace) }
  /\ ~DictHas(replace_pairs, "@A@")
  /\ \A i \in 1..Len(replace_pairs) : replace_pairs[i][1] \notin MagicKeys

\* The number of lines of a text.
LineCount(text) == Len(Split(text, "\n"))

\* C16 (as the spec states it): for a source whose placeholders are all known,
\* the substituted source text has as many lines as the source file, whatever
\* table the caller supplies.
C16_LineCountPreserved ==
  Did("substitute_replace_pairs") => LineCount(routine_source_code[1]) = LineCount(file_text)

\* The pydoc entries of the routine's parameters, as the record held them before
\* any wrapper was generated from it.
RoutineEntries ==
  GetDocBlockPartsWrapper([description |-> "Test.", parameters |-> << >>], metadata_parameters).parameters

\* C17 (as the spec states it): the signature has 'bulk_handler: BulkHandler'
\* right after 'self' and before every routine parameter, and every time the
\* documentation block is built from the record its parameter list is one
\* bulk_handler entry followed by the routine's parameters in their order, also
\* at the second generation from the same record.
C17_BulkHandlerFirstOnce ==
  /\ wrapper_args # None =>
        wrapper_args[1] = "self, bulk_handler: BulkHandler" \o ArgsOf(metadata_parameters)
  /\ docstring_parameters # None =>
        docstring_parameters[1] = << BulkHandlerParameter >> \o RoutineEntries

\* The characters of the comment markers, and white space.
MarkerChars == {"/", "*"} \cup SpaceChars

\* What a line of a doc block says: the line without the marker characters and
\* the white space at its ends.
ContentOf(line) ==
  LET keep == { j \in 1..Len(line) : Ch(line, j) \notin MarkerChars }
  IN IF keep = {} THEN "" ELSE SubSeq(line, Min(keep), Max(keep))

ContentsOf(block) == [i \in 1..Len(block) |-> ContentOf(block[i])]

\* The contents joined by line breaks, without the empty ones at either end.
TrimmedText(contents) ==
  LET full == { i \in 1..Len(contents) : contents[i] # "" }
  IN IF full = {} THEN "" ELSE Join(SubSeq(contents, Min(full), Max(full)), "\n")

IsTagLine(content) == StartsAt(content, 1, "@")

\* A line of parsed text holds no marker and no white space at its ends.
CleanLine(line) ==
  /\ Strip(line) = line
  /\ ~StartsAt(line, 1, "*")
  /\ ~Contains(line, "/**")
  /\ ~Contains(line, "*/")

\* A parsed text leaks nothing: its lines are clean, and it neither starts nor
\* ends with an empty line.
NoLeakIn(lines) ==
  /\ \A i \in 1..Len(lines) : CleanLine(lines[i])
  /\ Len(lines) > 1 => (lines[1] # "" /\ lines[Len(lines)] # "")

NoLeak(text) == NoLeakIn(Split(text, "\n"))

\* What C18 asks of the parse r of a block with the contents c.
NothingLeaks(r, c) ==
  /\ NoLeak(r.description)
  /\ \A n \in 1..Len(r.tags) : r.tags[n].text # "" /\ NoLeak(r.tags[n].text)
  /\ (\A i \in 1..Len(c) : ~IsTagLine(c[i])) =>
        /\ r.tags = << >>
        /\ r.description = TrimmedText(c)
  /\ (\E i \in 1..Len(c) : IsTagLine(c[i]) /\ \A j \in 1..(i - 1) : c[j] = "") =>
        r.description = ""

TagEnd(c, i) ==
  Max({ j \in i..Len(c) : \A k \in (i + 1)..j : c[k] # "" /\ ~IsTagLine(c[k]) })

TagTextAt(c, i) == Join(SubSeq(c, i, TagEnd(c, i)), "\n")

\* The line is a tag line with this name.
IsTagNamed(content, name) ==
  /\ StartsAt(content, 2, name)
  /\ IsTagLine(content)
  /\ SkipWhile(content, 2, IdentChars) = Len(name) + 2

RECURSIVE TagTextsFrom(_, _, _)
\* The texts of the tags with the name that start at line i or later, in order.
TagTextsFrom(c, name, i) ==
  IF i > Len(c) THEN << >>
  ELSE (IF IsTagNamed(c[i], name) THEN << TagTextAt(c, i) >> ELSE << >>) \o TagTextsFrom(c, name, i + 1)

\* The names get_tags is asked for.
TagNames == {"param", "type", "return", "p1"}

\* The contents before the first tag line.
BeforeTags(c) ==
  LET at == { i \in 1..Len(c) : IsTagLine(c[i]) }
  IN IF at = {} THEN c ELSE SubSeq(c, 1, Min(at) - 1)

\* What C19 asks of the parse r of a block with the contents c.
TagsGoOn(r, c) ==
  /\ \A name \in TagNames : TextsOf(r.tags, name) = TagTextsFrom(c, name, 1)
  /\ Len(r.tags) = Cardinality({ i \in 1..Len(c) : IsTagLine(c[i]) })
  /\ r.description = TrimmedText(BeforeTags(c))

\* C19: the lines that follow a tag line, have content and do not start with '@'
\* are added to the text of that tag, each after one line break and without its
\* marker and its indentation; get_tags(name) gives the texts of the tags with
\* that name and no others, in the order of the block; such a line is added
\* neither to the description nor to another tag.
C19_TagContinuation ==
  reflection # None => TagsGoOn(reflection[1], ContentsOf(comment[1]))

\* C19's case: the block of test30, whose second @param tag goes on for a line.
C19_Witness ==
  /\ comment = Some(<< "/**", " * Hello World.", " * ", " * @param p1 This is param1.",
                       " * @param p2 This is param2.", " *           This is more about param2",
                       " */" >>)
  /\ reflection # None
  /\ reflection[1].description = "Hello World."
  /\ TextsOf(reflection[1].tags, "param") =
       << "@param p1 This is param1.", "@param p2 This is param2.\nThis is more about param2" >>

\* How many times the step has been called in this run, and when it was first.
Calls(step) == Cardinality({ i \in 1..Len(trace) : trace[i] = step })

FirstCall(step) == Min({ i \in 1..Len(trace) : trace[i] = step })

\* Both steps have been called, a before b.
InOrder(a, b) == Did(a) /\ Did(b) /\ FirstCall(a) < FirstCall(b)

\* The steps that come after the load of the routine.
AfterLoad ==
  {"get_bulk_insert_table_columns_info", "get_routine_parameters_info",
   "get_doc_block_parts_wrapper", "validate_parameter_lists", "update_metadata"}

\* The routine is loaded at most once, after the four steps before it, in order.
LoadedOnceInOrder ==
  /\ Calls("load_routine_file") <= 1
  /\ Did("load_routine_file") =>
       /\ InOrder("read_source_file", "get_placeholders")
       /\ InOrder("get_placeholders", "get_designation_type_old")
       /\ Did("get_designation_type_new") =>
            /\ InOrder("get_designation_type_old", "get_designation_type_new")
            /\ InOrder("get_designation_type_new", "get_name")
       /\ InOrder("get_designation_type_old", "get_name")
       /\ InOrder("get_name", "substitute_replace_pairs")
       /\ InOrder("substitute_replace_pairs", "load_routine_file")
       /\ designation_type # None
       /\ routine_source_code # None

\* A failure ends the run: the except clause is all that follows it; and when
\* the load was not reached, nothing that comes after the load has happened.
FailureStopsTheRun ==
  exception # None =>
    /\ \/ pc = "except" /\ ~Did("except")
       \/ pc = "done" /\ Calls("except") = 1 /\ trace[Len(trace)] = "except"
    /\ ~Did("load_routine_file") =>
         /\ \A step \in AfterLoad : ~Did(step)
         /\ \A i \in 1..Len(io_log) : io_log[i][1] # "warning"
         /\ own_metadata = None
         /\ old_metadata \in {None, Some(OldMetadata)}
         /\ fields = None /\ columns_types = None /\ parameters = << >>

\* The column facts are fetched for bulk_insert and for nothing else, between the
\* load and the fetch of the parameter facts.
BulkFactsInPlace ==
  /\ \A step \in AfterLoad : Did(step) => InOrder("load_routine_file", step)
  /\ Did("get_bulk_insert_table_columns_info") => designation_type = Some("bulk_insert")
  /\ Did("get_routine_parameters_info") =>
       /\ Did("get_bulk_insert_table_columns_info") <=> designation_type = Some("bulk_insert")
       /\ Did("get_bulk_insert_table_columns_info") =>
            InOrder("get_bulk_insert_table_columns_info", "get_routine_parameters_info")

\* C20: in one call of load_stored_routine the routine is loaded at most once,
\* and only after the placeholder check, the designation resolution, the name
\* extraction and the substitution, in that order and without a failure; when
\* one of them fails the routine is not loaded, no facts are fetched, no warning
\* is logged and no metadata record is written; the column facts are fetched
\* exactly for bulk_insert, after the load and before the parameter facts.
C20_LoadAfterChecks == LoadedOnceInOrder /\ FailureStopsTheRun /\ BulkFactsInPlace

\* C20's case: the name extraction of a bulk_insert routine failed, and the run
\* ended without a load.
C20_Witness ==
  /\ pc = "done"
  /\ designation_type = Some("bulk_insert")
  /\ trace = << "start", "must_reload", "read_source_file", "get_placeholders",
                "get_designation_type_old", "get_name", "except" >>
  /\ exception = Some(BackendError)
  /\ result = Some([kind |-> "False", ref |-> "none"])

\* The nine designations.
DesignationKeywords ==
  {"none", "log", "singleton0", "singleton1", "rows", "rows_with_key", "rows_with_index",
   "bulk_insert", "function"}

\* C21 (as the spec states it): after every successful resolution the designation
\* is one of the nine lower-case keywords, the table name is set exactly when the
\* designation is bulk_insert, and the column list is set exactly when it is
\* bulk_insert, rows_with_key or rows_with_index, whatever the pragma lines of the
\* specification region are.
C21_DesignationWellFormed ==
  pc = "get_name" =>
    /\ designation_type # None
    /\ designation_type[1] \in DesignationKeywords
    /\ table_name # None <=> designation_type = Some("bulk_insert")
    /\ columns # None <=>
         designation_type \in {Some("bulk_insert"), Some("rows_with_key"), Some("rows_with_index")}

\* No step writes into the record the caller passed as the prior metadata.
PriorRecordKept == old_metadata' = old_metadata

\* A run that recompiled returns a record that is not the prior one.
ReturnsOwnRecord ==
  (pc = "done" /\ Did("update_metadata") /\ result[1].kind = "metadata") =>
    result[1].ref # "old"

\* C22 (as the spec states it): load_stored_routine never modifies the prior
\* metadata record the caller supplied, whatever the outcome of the run, and a
\* successful recompilation returns a record that is not shared with the prior one.
C22_PriorRecordUntouched == []ReturnsOwnRecord /\ [][PriorRecordKept]_vars

\* _must_reload has answered that no reload is needed: line 166 has skipped the pipeline.
NoReload ==
  /\ pc \in {"return", "done"}
  /\ Did("must_reload")
  /\ ~Did("read_source_file")
  /\ ~Did("except")

\* The steps of the pipeline, lines 167-178.
PipelineSteps ==
  {"read_source_file", "get_placeholders", "get_designation_type_old", "get_designation_type_new",
   "get_name", "substitute_replace_pairs", "load_routine_file", "get_bulk_insert_table_columns_info",
   "get_routine_parameters_info", "get_doc_block_parts_wrapper", "validate_parameter_lists",
   "update_metadata"}

\* Nothing of the pipeline has run or left a mark, and what is returned is the prior record.
NoReloadOutcome ==
  NoReload =>
    /\ \A i \in 1..Len(trace) : trace[i] \notin PipelineSteps
    /\ routine_source_code = None /\ routine_source_code_lines = << >>
    /\ replace = << >>
    /\ designation_type = None /\ table_name = None /\ columns = None
    /\ fields = None /\ columns_types = None /\ parameters = << >>
    /\ doc_block_parts_source = None /\ doc_block_parts_wrapper = None
    /\ exception = None
    /\ io_log = << >>
    /\ pc = "done" =>
         /\ result # None
         /\ result[1].kind = "metadata"
         /\ Deref(result[1].ref) = old_metadata

\* No step of a run that has not read the source writes into a metadata record.
NoReloadStep ==
  ~Did("read_source_file") => (old_metadata' = old_metadata /\ own_metadata' = own_metadata)

\* C23: when _must_reload answers that no reload is needed (the source file exists),
\* load_stored_routine returns the prior metadata record with every field as it was,
\* and no step of the pipeline runs: the source is not read, no error is raised or
\* logged, nothing is loaded or fetched from the RDBMS, and no warning is emitted.
C23_NoReloadReturnsPrior == []NoReloadOutcome /\ [][NoReloadStep]_vars

\* C23's case: a run with a prior record has ended without a reload.
C23_Witness ==
  /\ pc = "done"
  /\ trace = << "start", "must_reload", "return" >>
  /\ old_metadata = Some(OldMetadata)
  /\ result = Some([kind |-> "metadata", ref |-> "old"])

\* Line k with every spelling of the current-line token replaced by the literal 'k'.
LineTokenReplacedIn(line, k) ==
  ReplaceAll(ReplaceAll(line, "__LINE__", Quoted(IntToStr(k))), "__line__", Quoted(IntToStr(k)))

LineTokensReplaced(lines, substituted) ==
  /\ substituted = Join([k \in 1..Len(lines) |-> LineTokenReplacedIn(lines[k], k)], "\n")
  /\ ~Contains(Lower(substituted), "__line__")

IsParamLineOf(line, name) ==
  /\ StartsAt(line, 1, " * @param " \o name)
  /\ Len(line) = Len(" * @param " \o name) \/ Ch(line, Len(" * @param " \o name) + 1) = " "

\* The text the doc block gives for the parameter: what follows the name in the
\* first @param tag for it, and the empty string when there is no tag or no text.
DocumentedText(lines, name) ==
  LET hit == { i \in 1..Len(lines) : IsParamLineOf(lines[i], name) }
  IN IF hit = {} THEN ""
     ELSE Strip(From(lines[Min(hit)], Len(" * @param " \o name) + 1))

PydocParametersFor(lines, entries) ==
  /\ Len(entries) = Len(parameters)
  /\ \A i \in 1..Len(entries) :
       /\ entries[i].parameter_name = parameters[i].name
       /\ entries[i].description # None
       /\ entries[i].description = Some(DocumentedText(lines, parameters[i].name))

\* C25 (as the spec states it): the documentation payload holds one entry per
\* parameter the RDBMS reports, in the order of the RDBMS, whatever the doc block
\* documents, and the description of every entry is a string: the text of the
\* first @param tag for the parameter, the empty string when the doc block gives
\* no text for it.
C25_PydocParameters ==
  doc_block_parts_wrapper # None =>
    PydocParametersFor(routine_source_code_lines, doc_block_parts_wrapper[1].parameters)

=============================================================================
